---- MODULE Spec2Model ----
(***************************************************************************)
(* Time-resolution aggregation and breakdown engine of TulipaVisualizer.   *)
(* The SQL templates of services/query_builder.rs are evaluated relation   *)
(* by relation: every common table expression is an operator over sets of  *)
(* records, and every stage of the query is one action.                    *)
(*                                                                         *)
(* Numbers: time_block_start/end, hours and bin indexes are integers; the  *)
(* y_axis values are exact rationals <<numerator, denominator>> with a     *)
(* positive denominator in lowest terms; SQL NULL is <<0, 0>>.             *)
(***************************************************************************)
EXTENDS Integers, Sequences, FiniteSets, TLC

(***************************************************************************)
(* Bounds of the explored data sets.                                       *)
(***************************************************************************)
MaxTimesteps == 3
MaxResolution == 3

(***************************************************************************)
(* Exact rational arithmetic for the DOUBLE columns.                       *)
(***************************************************************************)
NULL == <<0, 0>>

Abs(n) == IF n < 0 THEN -n ELSE n

RECURSIVE GCD(_, _)
GCD(a, b) == IF b = 0 THEN a ELSE GCD(b, a % b)

IsNull(q) == q[2] = 0

Norm(n, d) ==
  IF d = 0 THEN NULL
  ELSE LET g == GCD(Abs(n), Abs(d))
           s == IF d < 0 THEN -1 ELSE 1
       IN  <<(s * n) \div g, (s * d) \div g>>

Rat(n) == <<n, 1>>

RAdd(p, q) == IF IsNull(p) \/ IsNull(q) THEN NULL
              ELSE Norm(p[1] * q[2] + q[1] * p[2], p[2] * q[2])

RMul(p, q) == IF IsNull(p) \/ IsNull(q) THEN NULL
              ELSE Norm(p[1] * q[1], p[2] * q[2])

\* p / NULLIF(q, 0): a zero divisor yields NULL
RDivNullIf(p, q) == IF IsNull(p) \/ IsNull(q) \/ q[1] = 0 THEN NULL
                    ELSE Norm(p[1] * q[2], p[2] * q[1])

\* SUM(...) over the rows of one group; SQL's SUM skips NULL inputs and is
\* NULL only when every input is NULL.
RECURSIVE RSum(_, _)
RSum(S, f) ==
  IF S = {} THEN NULL
  ELSE LET r == CHOOSE x \in S : TRUE
           rest == RSum(S \ {r}, f)
       IN  IF IsNull(f[r]) THEN rest
           ELSE IF IsNull(rest) THEN f[r]
           ELSE RAdd(f[r], rest)

RECURSIVE ISum(_, _)
ISum(S, f) == IF S = {} THEN 0
              ELSE LET r == CHOOSE x \in S : TRUE
                   IN  f[r] + ISum(S \ {r}, f)

SetMin(S) == CHOOSE x \in S : \A y \in S : x <= y
SetMax(S) == CHOOSE x \in S : \A y \in S : x >= y

\* FLOOR(n / w) for integers n and w > 0
FloorDiv(n, w) == n \div w

(***************************************************************************)
(* RunLengthCompactor: the paired ROW_NUMBER() windows and the GROUP BY    *)
(* (partition, value, grp) that follow them.  A row is                     *)
(*   [part, start, end, val].                                              *)
(* ROW_NUMBER() numbers the rows of a window partition in ORDER BY order   *)
(* and breaks ties between equal sort keys arbitrarily, independently in   *)
(* each of the two windows: Orders(S) is the set of numberings the engine  *)
(* may produce.                                                            *)
(***************************************************************************)
RECURSIVE Orders(_)
Orders(S) ==
  IF S = {} THEN {<< >>}
  ELSE LET m == SetMin({r.start : r \in S})
           first == {r \in S : r.start = m}
       IN  UNION {{<<r>> \o t : t \in Orders(S \ {r})} : r \in first}

PosIn(ord, r) == CHOOSE i \in 1..Len(ord) : ord[i] = r

\* a first window that gives every row the number 1
RowNumberPartOne(ord, r) == 1

\* ROW_NUMBER() OVER (PARTITION BY part ORDER BY start)
RowNumberPart(ord, r) == PosIn(ord, r)

\* a second window that leaves every row in a run of its own
RowNumberPartValFirst(ord, r) == 1

\* ROW_NUMBER() OVER (PARTITION BY part, val ORDER BY start)
RowNumberPartVal(ord, r) ==
  Cardinality({i \in 1..PosIn(ord, r) : ord[i].val = r.val})

\* one partition S, numbered by ord1 and ord2, grouped by (val, grp)
Islands(S, ord1, ord2) ==
  LET grp(r) == RowNumberPart(ord1, r) - RowNumberPartVal(ord2, r)
      keys == {<<r.val, grp(r)>> : r \in S}
      members(k) == {r \in S : r.val = k[1] /\ grp(r) = k[2]}
  IN  {[part  |-> (CHOOSE r \in S : TRUE).part,
        start |-> SetMin({r.start : r \in members(k)}),
        end   |-> SetMax({r.end : r \in members(k)}),
        val   |-> k[1],
        grp   |-> k[2]] : k \in keys}

IslandOutcomes(S) == {Islands(S, o1, o2) : o1 \in Orders(S), o2 \in Orders(S)}

\* one choice of outcome per partition; O maps a partition key to the set
\* of its possible outcomes
RECURSIVE Product(_, _)
Product(K, O) ==
  IF K = {} THEN {{}}
  ELSE LET k == CHOOSE x \in K : TRUE
       IN  {o \cup rest : o \in O[k], rest \in Product(K \ {k}, O)}

CompactOutcomes(T) ==
  LET parts == {r.part : r \in T}
      O == [k \in parts |-> IslandOutcomes({r \in T : r.part = k})]
  IN  Product(parts, O)

\* the compaction of a table whose sort keys are distinct inside every
\* partition: the numbering is unique
Compact(T) == CHOOSE o \in CompactOutcomes(T) : TRUE

(***************************************************************************)
(* REP_PERIOD_RESOLUTION_SQL.  A source row is                             *)
(*   [asset, year, rep_period, time_block_start, time_block_end, value];   *)
(* asset stands for the {group_cols} column of the caller.                 *)
(***************************************************************************)
\* numbered: the two windows are partitioned by (group, year, rep_period)
Numbered(src) ==
  {[part  |-> <<r.asset, r.year, r.rep_period>>,
    start |-> r.time_block_start,
    end   |-> r.time_block_end,
    val   |-> r.value] : r \in src}

\* grouped: WHERE year = ? GROUP BY group, year, rep_period, value, grp.
\* The grp column is kept as the identity of the row in the result bag.
GroupedOf(islands, yr) ==
  {[asset            |-> g.part[1],
    year             |-> g.part[2],
    rep_period       |-> g.part[3],
    value            |-> g.val,
    time_block_start |-> g.start,
    time_block_end   |-> g.end,
    grp              |-> g.grp] : g \in {x \in islands : x.part[2] = yr}}

GroupedOutcomes(src, yr) ==
  {GroupedOf(o, yr) : o \in CompactOutcomes(Numbered(src))}

\* all_blocks without the boundary 0
AllBlocksNoZero(grp_t, map_t) ==
  LET joined == {<<g, m>> \in grp_t \X map_t :
                   g.year = m.year /\ g.rep_period = m.rep_period}
  IN  {[year |-> j[1].year, period |-> j[2].period,
        time_block_end |-> j[1].time_block_end] : j \in joined}

\* all_blocks: every block end of a period, plus the boundary 0 (UNION)
AllBlocks(grp_t, map_t) ==
  LET joined == {<<g, m>> \in grp_t \X map_t :
                   g.year = m.year /\ g.rep_period = m.rep_period}
  IN  {[year |-> j[1].year, period |-> j[2].period,
        time_block_end |-> j[1].time_block_end] : j \in joined}
      \cup
      {[year |-> j[1].year, period |-> j[2].period,
        time_block_end |-> 0] : j \in joined}

\* ranked_blocks: ROW_NUMBER() OVER (PARTITION BY year, period
\*                                   ORDER BY time_block_end)
RankedBlocks(blocks) ==
  {[year |-> b.year, period |-> b.period, time_block_end |-> b.time_block_end,
    rn |-> Cardinality({c \in blocks : /\ c.year = b.year
                                       /\ c.period = b.period
                                       /\ c.time_block_end <= b.time_block_end})]
   : b \in blocks}

\* periods: each boundary paired with its successor
Periods(grp_t, map_t) ==
  LET ranked == RankedBlocks(AllBlocks(grp_t, map_t))
  IN  {[year |-> pr[1].year, period |-> pr[1].period,
        start_hour |-> pr[1].time_block_end,
        end_hour |-> pr[2].time_block_end] :
       pr \in {q \in ranked \X ranked : /\ q[1].year = q[2].year
                                        /\ q[1].period = q[2].period
                                        /\ q[1].rn + 1 = q[2].rn}}

\* the containment test of the raw join
Contains(g, p) == /\ p.start_hour + 1 >= g.time_block_start
                  /\ p.end_hour <= g.time_block_end

\* raw: SUM(value * weight / resolution) per
\*      (group, year, period, resolution, start_hour, end_hour)
Raw(grp_t, map_t, per_t, data_t) ==
  LET joined == {j \in grp_t \X map_t \X per_t \X data_t :
                   /\ j[1].year = j[2].year
                   /\ j[1].rep_period = j[2].rep_period
                   /\ j[3].year = j[2].year
                   /\ j[3].period = j[2].period
                   /\ Contains(j[1], j[3])
                   /\ j[4].year = j[2].year
                   /\ j[4].rep_period = j[2].rep_period}
      key(j) == <<j[1].asset, j[1].year, j[2].period, j[4].resolution,
                  j[3].start_hour, j[3].end_hour>>
      term == [j \in joined |->
                 Norm(j[1].value * j[2].weight, j[4].resolution)]
  IN  {[asset          |-> k[1],
        milestone_year |-> k[2],
        period         |-> k[3],
        start_hour     |-> k[5] * k[4],
        end_hour       |-> k[6] * k[4],
        y_axis         |-> RSum({j \in joined : key(j) = k}, term)]
       : k \in {key(j) : j \in joined}}

\* numbered_blocks and final_rep_periods: compaction per
\* (group, milestone_year, period)
NumberedBlocks(raw_t) ==
  {[part  |-> <<r.asset, r.milestone_year, r.period>>,
    start |-> r.start_hour,
    end   |-> r.end_hour,
    val   |-> r.y_axis] : r \in raw_t}

FinalRepPeriods(raw_t) ==
  {[asset          |-> g.part[1],
    milestone_year |-> g.part[2],
    period         |-> g.part[3],
    start_hour     |-> g.start,
    end_hour       |-> g.end,
    y_axis         |-> g.val] : g \in Compact(NumberedBlocks(raw_t))}

(***************************************************************************)
(* LAST_PART_SQL, over the table named by {final}                          *)
(***************************************************************************)
\* period_durations: MAX(end_hour) per (group, milestone_year, period)
PeriodDurations(fin) ==
  {[asset |-> k[1], milestone_year |-> k[2], period |-> k[3],
    period_duration |->
      SetMax({f.end_hour : f \in {x \in fin : /\ x.asset = k[1]
                                              /\ x.milestone_year = k[2]
                                              /\ x.period = k[3]}})]
   : k \in {<<f.asset, f.milestone_year, f.period>> : f \in fin}}

\* final_with_offsets: COALESCE(SUM of the durations of the earlier periods
\* of the same group and year, 0)
OffsetVal(fin, f) ==
  LET earlier == {d \in PeriodDurations(fin) :
                    /\ d.asset = f.asset
                    /\ d.milestone_year = f.milestone_year
                    /\ d.period < f.period}
  IN  ISum(earlier, [d \in earlier |-> d.period_duration])

\* s_table: the local hours moved onto the global timeline
STable(fin) ==
  {[asset          |-> f.asset,
    milestone_year |-> f.milestone_year,
    global_start   |-> OffsetVal(fin, f) + f.start_hour,
    global_end     |-> OffsetVal(fin, f) + f.end_hour,
    y_axis         |-> f.y_axis] : f \in fin}

\* exploded: the first and the last bin a segment touches
FirstPeriod(e, w) == FloorDiv(e.global_start, w)
LastPeriod(e, w) == FloorDiv(e.global_end - 1, w)

\* resolution_periods: one row per bin of generate_series(first, last);
\* GREATEST(global_start, period) and LEAST(global_end, period + 1)
PeriodStart(e, b, w) == IF e.global_start >= b THEN e.global_start ELSE b
PeriodEnd(e, b, w) == IF e.global_end <= b + 1 THEN e.global_end ELSE b + 1

\* global_start and global_end identify the exploded row a result row was
\* made from (the result is a bag)
ResolutionPeriods(st, w) ==
  UNION {{[asset          |-> e.asset,
           milestone_year |-> e.milestone_year,
           period         |-> b,
           period_start   |-> PeriodStart(e, b, w),
           period_end     |-> PeriodEnd(e, b, w),
           y_axis         |-> e.y_axis,
           global_start   |-> e.global_start,
           global_end     |-> e.global_end]
          : b \in FirstPeriod(e, w)..LastPeriod(e, w)} : e \in st}

\* weighted: SUM((period_end - period_start) * y_axis) and
\* SUM(period_end - period_start) per (group, milestone_year, period)
Weighted(rp) ==
  LET wp == [r \in rp |-> RMul(Rat(r.period_end - r.period_start), r.y_axis)]
      du == [r \in rp |-> r.period_end - r.period_start]
      rowsOf(k) == {r \in rp : /\ r.asset = k[1]
                               /\ r.milestone_year = k[2]
                               /\ r.period = k[3]}
  IN  {[asset          |-> k[1],
        milestone_year |-> k[2],
        period         |-> k[3],
        weighted_price |-> RSum(rowsOf(k), wp),
        duration       |-> ISum(rowsOf(k), du)]
       : k \in {<<r.asset, r.milestone_year, r.period>> : r \in rp}}

\* period_avg.  In "weighted_price / NULLIF(duration, 0) AS y_axis" the name
\* weighted_price is the column of weighted (a column of the FROM clause is
\* found before an alias of the same SELECT list), so y_axis is the
\* duration-weighted average whatever {agg} is.
PeriodAvgPrice(w, agg) ==
  IF agg = "avg" THEN RDivNullIf(w.weighted_price, Rat(w.duration))
  ELSE w.weighted_price

PeriodAvgYAxis(w, agg) == RDivNullIf(w.weighted_price, Rat(w.duration))

PeriodAvg(wt, agg) ==
  {[asset            |-> w.asset,
    milestone_year   |-> w.milestone_year,
    global_start_val |-> w.period,
    global_end_val   |-> w.period + 1,
    weighted_price   |-> PeriodAvgPrice(w, agg),
    y_axis           |-> PeriodAvgYAxis(w, agg)] : w \in wt}

\* numbered_1 and merged: compaction per (group, milestone_year);
\* merged keeps y_axis and drops weighted_price
Numbered1(pa) ==
  {[part  |-> <<r.asset, r.milestone_year>>,
    start |-> r.global_start_val,
    end   |-> r.global_end_val,
    val   |-> r.y_axis] : r \in pa}

Merged(pa) ==
  {[asset          |-> g.part[1],
    milestone_year |-> g.part[2],
    global_start   |-> g.start,
    global_end     |-> g.end,
    y_axis         |-> g.val] : g \in Compact(Numbered1(pa))}

(***************************************************************************)
(* The data sets the engine is run on.                                     *)
(***************************************************************************)
Values == {10, 20}
Aggs == {"sum", "avg"}

MapRow(p, rp, w) == [year |-> 2030, period |-> p, rep_period |-> rp, weight |-> w]
DataRow(rp, res) ==
  [year |-> 2030, rep_period |-> rp, resolution |-> res,
   num_timesteps |-> MaxTimesteps]

\* rep_periods_mapping and rep_periods_data: one period; two periods of
\* different resolution; two representative periods aliased to one period;
\* one representative period standing for two periods; two periods of
\* resolution 2
Datasets ==
  { [mapping |-> {MapRow(1, 1, 2)},
     data    |-> {DataRow(1, 1)}],
    [mapping |-> {MapRow(1, 1, 1), MapRow(2, 2, 2)},
     data    |-> {DataRow(1, 1), DataRow(2, 2)}],
    [mapping |-> {MapRow(1, 1, 1), MapRow(1, 2, 1)},
     data    |-> {DataRow(1, 1), DataRow(2, 1)}],
    [mapping |-> {MapRow(1, 1, 1), MapRow(2, 1, 2), MapRow(3, 2, 1)},
     data    |-> {DataRow(1, 1), DataRow(2, 1)}],
    [mapping |-> {MapRow(1, 1, 1), MapRow(2, 2, 1)},
     data    |-> {DataRow(1, 2), DataRow(2, 2)}] }

SrcRow(a, y, rp, s, e, v) ==
  [asset |-> a, year |-> y, rep_period |-> rp,
   time_block_start |-> s, time_block_end |-> e, value |-> v]

\* the ways of covering the timesteps from..to of one representative period
\* with consecutive time blocks, equal neighbouring values included
RECURSIVE Tilings(_, _, _, _, _)
Tilings(a, y, rp, from, to) ==
  IF from > to THEN {{}}
  ELSE UNION {{{SrcRow(a, y, rp, from, e, v)} \cup rest :
                 rest \in Tilings(a, y, rp, e + 1, to)} :
              e \in from..to, v \in Values}

\* asset A in representative period 1: blocks from timestep 1 up to any
\* timestep of the period
LayoutsA1 == UNION {Tilings("A", 2030, 1, 1, n) : n \in 0..MaxTimesteps}

\* asset A in representative period 2: nothing, or one block over the period
LayoutsA2 ==
  {{}} \cup {{SrcRow("A", 2030, 2, 1, MaxTimesteps, v)} : v \in Values}

\* asset B: nothing, one block over representative period 1, a block that
\* ends before the period does, or rows of another year
LayoutsB ==
  { {},
    {SrcRow("B", 2030, 1, 1, MaxTimesteps, 10)},
    {SrcRow("B", 2030, 1, 1, 1, 20)},
    {SrcRow("B", 2031, 1, 1, MaxTimesteps, 10)} }

(***************************************************************************)
(* Category hierarchy, CategoryFilter and BreakdownClassifier.             *)
(* category(id, name, parent_id): parent_id 0 stands for NULL.             *)
(*   1 Technology                 6 Region                                 *)
(*     2 Renewable                  7 North                                *)
(*       4 Wind                     8 South                                *)
(*       5 Solar                                                           *)
(*     3 Fossil                                                            *)
(***************************************************************************)
CatRow(i, n, p) == [id |-> i, name |-> n, parent_id |-> p]

Category ==
  { CatRow(1, "Technology", 0), CatRow(2, "Renewable", 1),
    CatRow(3, "Fossil", 1), CatRow(4, "Wind", 2), CatRow(5, "Solar", 2),
    CatRow(6, "Region", 0), CatRow(7, "North", 6), CatRow(8, "South", 6) }

\* the asset table
Asset ==
  { [asset |-> "A", type |-> "producer"],
    [asset |-> "B", type |-> "storage"],
    [asset |-> "C", type |-> "consumer"] }

AcRow(a, r, l) == [asset |-> a, root_id |-> r, leaf_id |-> l]

\* WITH RECURSIVE sub AS (SELECT id FROM category WHERE id IN (ids)
\*   UNION ALL SELECT c.id FROM category c JOIN sub s ON c.parent_id = s.id)
RECURSIVE Closure(_)
Closure(S) ==
  LET next == S \cup {c.id : c \in {x \in Category : x.parent_id \in S}}
  IN  IF next = S THEN S ELSE Closure(next)

Descendants(ids) == Closure({c.id : c \in {x \in Category : x.id \in ids}})

\* the EXISTS condition build_filter_conditions emits for one root
RootCondition(ac, a, root, ids) ==
  \E r \in ac : /\ r.asset = a
                /\ r.root_id = root
                /\ r.leaf_id \in Descendants(ids)

\* a filter that joins the conditions of the roots by OR
FilterConditionsAnyRoot(ac, a, flt) ==
  \/ \A root \in DOMAIN flt : flt[root] = {}
  \/ \E root \in DOMAIN flt :
       flt[root] # {} /\ RootCondition(ac, a, root, flt[root])

\* a loop over the roots that has no "continue" for an empty list
ConditionRootsAll(flt) == DOMAIN flt

\* the roots build_filter_conditions pushes a condition for: those with a
\* non-empty list ("if leaf_ids.is_empty() { continue; }")
ConditionRoots(flt) == {root \in DOMAIN flt : flt[root] # {}}

\* build_filter_conditions: the conditions of the roots with a non-empty
\* list, joined by AND; the empty string when there is none
FilterConditions(ac, a, flt) ==
  \A root \in ConditionRoots(flt) : RootCondition(ac, a, root, flt[root])

\* {filtered_assets}: "SELECT * FROM asset AS a WHERE 1 <conditions>" with
\* metadata enabled, "SELECT * FROM asset" without
FilteredAssets(ac, flt, metadata) ==
  IF metadata THEN {a \in Asset : FilterConditions(ac, a.asset, flt)}
  ELSE Asset

\* one WHEN of build_breakdown_case_conditions: the asset has a leaf in the
\* subtree of the node
WhenExists(ac, a, node) ==
  \E r \in ac : r.asset = a /\ r.leaf_id \in Descendants({node})

\* THEN c<node>.name, of LEFT JOIN category c<node> ON c<node>.id = <node>
NodeName(node) == (CHOOSE c \in Category : c.id = node).name

\* a CASE in which the last WHEN that holds wins
RECURSIVE CaseFromLast(_, _, _, _)
CaseFromLast(ac, a, grp, i) ==
  IF i > Len(grp) THEN "Other"
  ELSE LET later == CaseFromLast(ac, a, grp, i + 1)
       IN  IF later # "Other" THEN later
           ELSE IF WhenExists(ac, a, grp[i]) THEN NodeName(grp[i])
           ELSE "Other"

\* CASE <WHEN ... THEN ...>* ELSE 'Other' END: the first WHEN that holds, in
\* the order of the grouper.  An empty grouper yields the asset column.
RECURSIVE CaseFrom(_, _, _, _)
CaseFrom(ac, a, grp, i) ==
  IF i > Len(grp) THEN "Other"
  ELSE IF WhenExists(ac, a, grp[i]) THEN NodeName(grp[i])
  ELSE CaseFrom(ac, a, grp, i + 1)

BreakdownCase(ac, a, grp) ==
  IF grp = << >> THEN a ELSE CaseFrom(ac, a, grp, 1)

\* PRODUCTION_DATA_SIMPLE_SQL: the constraint rows of the filtered assets of
\* type producer, storage or conversion, relabelled by the CASE and grouped
\* by every selected column (value included)
ProductionTable(cons_t, fa, ac, grp) ==
  {[asset            |-> BreakdownCase(ac, j[1].asset, grp),
    year             |-> j[1].year,
    rep_period       |-> j[1].rep_period,
    time_block_start |-> j[1].time_block_start,
    time_block_end   |-> j[1].time_block_end,
    value            |-> j[1].value] :
   j \in {q \in cons_t \X fa :
            /\ q[1].asset = q[2].asset
            /\ q[2].type \in {"producer", "storage", "conversion"}}}

(***************************************************************************)
(* CLUSTURED_YEAR_RESOLUTIONS_SQL and BOTH_RESOLUTIONS_SQL.  A row of      *)
(* {source_table_1} is                                                     *)
(*   [asset, year, period_block_start, period_block_end, value].           *)
(***************************************************************************)
ClRow(a, y, s, e, v) ==
  [asset |-> a, year |-> y, period_block_start |-> s,
   period_block_end |-> e, value |-> v]

\* pre_processed: one row per period of generate_series(start, end),
\* SUM(value) per (group, year, period)
PreProcessed(src1, yr) ==
  LET unnest == UNION {{<<r, p>> :
                          p \in r.period_block_start..r.period_block_end} :
                        r \in {x \in src1 : x.year = yr}}
      key(u) == <<u[1].asset, u[1].year, u[2]>>
      term == [u \in unnest |-> Rat(u[1].value)]
  IN  {[asset |-> k[1], milestone_year |-> k[2], period |-> k[3],
        y_axis |-> RSum({u \in unnest : key(u) = k}, term)]
       : k \in {key(u) : u \in unnest}}

\* final_clustered: SELECT DISTINCT ... 0 AS start_hour,
\* num_timesteps * resolution AS end_hour
FinalClustered(pre, map_t, data_t) ==
  {[asset          |-> j[1].asset,
    milestone_year |-> j[1].milestone_year,
    period         |-> j[2].period,
    start_hour     |-> 0,
    end_hour       |-> j[3].num_timesteps * j[3].resolution,
    y_axis         |-> j[1].y_axis] :
   j \in {q \in pre \X map_t \X data_t :
            /\ q[1].milestone_year = q[2].year
            /\ q[1].period = q[2].period
            /\ q[2].year = q[3].year
            /\ q[2].rep_period = q[3].rep_period}}

\* final: the join on (group, year, period) with the values added, UNION ALL
\* the rows of either table whose group is NOT IN the groups of the other.
\* The three branches have no row in common: a joined row has its group in
\* both tables.
BothJoined(frp, fc) ==
  {[asset          |-> j[2].asset,
    milestone_year |-> j[2].milestone_year,
    period         |-> j[1].period,
    start_hour     |-> j[1].start_hour,
    end_hour       |-> j[1].end_hour,
    y_axis         |-> RAdd(j[1].y_axis, j[2].y_axis)] :
   j \in {q \in frp \X fc : /\ q[1].asset = q[2].asset
                            /\ q[1].milestone_year = q[2].milestone_year
                            /\ q[1].period = q[2].period}}

OnlyIn(t, other) == {r \in t : r.asset \notin {o.asset : o \in other}}

Both(frp, fc) == BothJoined(frp, fc) \cup OnlyIn(frp, fc) \cup OnlyIn(fc, frp)

VARIABLES
  source,               \* the rows of {source_table}
  source_1,             \* the rows of {source_table_1}
  mapping,              \* rep_periods_mapping
  rpdata,               \* rep_periods_data
  year,                 \* the bound argument of "year = ?"
  period_length,        \* {period_length}: the bin width
  agg,                  \* {agg}
  series,               \* "rep_periods": build_resolution_query,
                        \* "both": build_resolution_query_both
  cons,                 \* cons_capacity_outgoing_simple_method
  asset_category,       \* asset_category
  filters,              \* filters_by_category: root id -> node ids
  grouper,              \* the breakdown node ids, in order
  enable_metadata,
  pc,                   \* the next relation of the query to be evaluated
  filtered_assets,      \* {filtered_assets}
  grouped, periods, raw, final_rep_periods,
  pre_processed, final_clustered,
  final,                \* the table named by {final}
  s_table, resolution_periods, weighted, period_avg, merged

\* the connection registry of duckdb_conn.rs and the requests made of it
VARIABLES
  files,                \* the file system: path -> [exists, valid]
  db_pool,              \* ConnectionHandler.db_pool: path -> connection
  opened,               \* the paths Connection::open succeeded on, in order
  conn_handler,         \* the holder of the CONN_HANDLER mutex, 0 when free
  tpc,                  \* thread -> its position in run_query_rb/_row
  req,                  \* thread -> [fn, path, q] of the running call
  cursor,               \* thread -> rows of the statement not yet collected
  buffer,               \* thread -> elements collected so far
  res,                  \* thread -> the Result of its last call
  calls                 \* thread -> number of calls made

connVars == <<files, db_pool, opened, conn_handler, tpc, req, cursor, buffer,
              res, calls>>

\* a command of services/*.rs and the data set it is invoked on
VARIABLES
  schema,               \* the data set at a.duckdb: its <<table, column>>s
  command,              \* the command invoked and its arguments
  cpc,                  \* the position of the command
  checks,               \* the answers of check_column_in_table so far
  query,                \* the statement the command has built
  result,               \* the Result the command returns
  log,                  \* the statements the command has run so far
  invoked               \* the number of commands invoked

cmdVars == <<schema, command, cpc, checks, query, result, log, invoked>>

\* the Response a command makes of the batches of run_query_rb
VARIABLES
  response              \* thread -> [call, stream]: the bytes of the Arrow
                        \* stream written for its call number "call"

\* read_documentation_file and get_all_aggregate_flows
VARIABLES
  doc,                  \* [pc, file_path, disk, accessed, result, calls]
  flow                  \* [pc, result_incomplete, rows]

ipcVars == <<response, doc, flow>>

queryVars == <<mapping, rpdata, year, period_length, agg, series, source_1>>
metaVars == <<cons, asset_category, filters, grouper, enable_metadata>>
inputVars ==
  <<source, queryVars, metaVars, filtered_assets, connVars, cmdVars,
    ipcVars>>
repVars == <<grouped, periods, raw, final_rep_periods>>
clusteredVars == <<pre_processed, final_clustered>>
lastVars == <<s_table, resolution_periods, weighted, period_avg, merged>>
vars == <<inputVars, pc, repVars, clusteredVars, final, lastVars>>

NoResults ==
  /\ filtered_assets = {}
  /\ grouped = {} /\ periods = {} /\ raw = {} /\ final_rep_periods = {}
  /\ pre_processed = {} /\ final_clustered = {}
  /\ final = {}
  /\ s_table = {} /\ resolution_periods = {} /\ weighted = {}
  /\ period_avg = {} /\ merged = {}

NoMetadata ==
  /\ cons = {} /\ asset_category = {} /\ filters = << >> /\ grouper = << >>
  /\ enable_metadata = FALSE

(***************************************************************************)
(* duckdb_conn.rs: paths, files, statements and results                    *)
(***************************************************************************)
MaxCalls == 2
MaxRows == 2

Threads == {1, 2}

\* a path is its stem and its extension: "a" ++ ".duckdb"
Path(stem, ext) == [stem |-> stem, ext |-> ext]

Paths ==
  {Path("a", ".duckdb"), Path("b", ".duckdb"), Path("ghost", ".duckdb"),
   Path("broken", ".duckdb"), Path("a", ".out")}

\* db_path.ends_with(suffix)
EndsWith(p, suffix) == p.ext = suffix

\* what Path::exists and Connection::open find at each path
FileSystem ==
  [p \in Paths |->
     [exists |-> p.stem # "ghost", valid |-> p.stem # "broken"]]

\* an error string is the sequence of its parts
ExtensionError == <<"Database path must end with", ".duckdb">>
FileNotFoundError == <<"Error<", "file not found", "> connecting to">>
OpenError == <<"Failed to open database">>
ParseError == <<"error parsing query">>
ExecuteError == <<"error executing query">>

\* str::contains
StrContains(e, part) == \E i \in DOMAIN e : e[i] = part

Ok(v) == [ok |-> TRUE, val |-> v, err |-> << >>]
Err(e) == [ok |-> FALSE, val |-> << >>, err |-> e]
NoResult == [ok |-> FALSE, val |-> << >>, err |-> <<"none">>]

\* a row of a statement: its value, and whether the column read by the
\* row mapper is NULL (row.get::<_, String> fails on NULL)
Row(v, n) == [value |-> v, null |-> n]

RECURSIVE SeqsUpTo(_, _)
SeqsUpTo(S, n) ==
  IF n = 0 THEN {<< >>}
  ELSE LET shorter == SeqsUpTo(S, n - 1)
       IN shorter \cup {Append(q, x) : q \in {r \in shorter : Len(r) = n - 1},
                                       x \in S}

\* a statement: whether it parses, its number of "?" placeholders, the
\* number of arguments bound to it, the rows it produces
Statement(parses, params, args, rows) ==
  [parses |-> parses, params |-> params, args |-> args, rows |-> rows]

OneRow == Statement(TRUE, 0, 0, <<Row("x", FALSE)>>)

\* the statements submitted to run_query_row: every mix of rows the mapper
\* accepts and rejects, one that does not parse, one with a missing argument
Statements ==
  {Statement(TRUE, 0, 0, r) :
     r \in SeqsUpTo({Row("x", FALSE), Row("y", TRUE)}, MaxRows)}
  \cup {Statement(FALSE, 0, 0, << >>),
        Statement(TRUE, 1, 0, <<Row("x", FALSE)>>)}

\* a relative path is the sequence of its components
ALLOWED_DOC_PATHS ==
  { <<"docs", "user-guide.md">>, <<"docs", "api-reference.md">>,
    <<"docs", "developer-guide-frontend.md">>,
    <<"docs", "developer-guide-backend.md">>, <<"docs", "Testing.md">>,
    <<"docs", "analysis-and-data-processing.md">>, <<"README.md">> }

\* the paths a caller asks for: the allowed ones, one that is not listed,
\* and paths that leave the directory or reach a listed file another way
DocPaths ==
  ALLOWED_DOC_PATHS
  \cup { <<"docs", "not-allowed.md">>, <<"..", "..", "..", "etc", "passwd">>,
         <<"docs", "..", "README.md">>, <<".", "README.md">>,
         <<"src", "README.md">>, << >> }

\* what is on the disk at the resolved path
DiskKinds == {"file", "unreadable", "directory", "missing"}

NoDoc ==
  [pc |-> "idle", file_path |-> << >>, disk |-> "missing",
   accessed |-> << >>, result |-> [ok |-> FALSE, val |-> << >>,
                                   err |-> <<"none">>],
   calls |-> 0]

NoDocuments == doc = NoDoc

\* result_incomplete: one row for each ordered pair of distinct groups that
\* has flows (GROUP BY from_id, to_id; WHERE from_id != to_id)
FlowRow(f, t, v) == [from_id |-> f, to_id |-> t, tot_flow |-> v]

\* location_nodes JOIN category: the root 'location' and three countries
LocationNodes ==
  { [id |-> 1, level |-> 2, name |-> "location"],
    [id |-> 2, level |-> 1, name |-> "NL"],
    [id |-> 3, level |-> 1, name |-> "BE"],
    [id |-> 4, level |-> 1, name |-> "DE"] }

FlowPairs == {p \in {2, 3, 4} \X {2, 3, 4} : p[1] # p[2]}

FlowValues == {5, 7}

ResultIncompletes ==
  {{FlowRow(p[1], p[2], v[p]) : p \in P} :
     P \in SUBSET FlowPairs, v \in [FlowPairs -> FlowValues]}

NoFlow == [pc |-> "none", result_incomplete |-> {}, rows |-> {}]

NoFlows == flow = NoFlow

\* no Response written yet
NoResponse == [call |-> 0, stream |-> << >>]

Request(fn, path, q) == [fn |-> fn, path |-> path, q |-> q]
NoRequest == Request("none", Path("", ""), Statement(FALSE, 0, 0, << >>))

Requests ==
  {Request("run_query_row", Path("a", ".duckdb"), q) : q \in Statements}
  \cup {Request("run_query_rb", p, OneRow) : p \in Paths}

NoRequests ==
  /\ files = FileSystem
  /\ db_pool = << >>
  /\ opened = << >>
  /\ conn_handler = 0
  /\ tpc = [t \in Threads |-> "idle"]
  /\ req = [t \in Threads |-> NoRequest]
  /\ cursor = [t \in Threads |-> << >>]
  /\ buffer = [t \in Threads |-> << >>]
  /\ res = [t \in Threads |-> NoResult]
  /\ calls = [t \in Threads |-> 0]
  /\ response = [t \in Threads |-> NoResponse]


(***************************************************************************)
(* services/*.rs: the tables, columns and statements of the commands       *)
(***************************************************************************)
\* a column name is the sequence of its parts, as format! joins them
Col(name) == <<name>>

\* format!("dual_{}_transport_flow_limit_simple_method", column_type)
DualTransport(column_type) ==
  <<"dual_", column_type, "_transport_flow_limit_simple_method">>

CompactDual ==
  <<"cons_capacity_outgoing_compact_method",
    Col("dual_max_output_flows_limit_compact_method")>>
SimpleDual ==
  <<"cons_capacity_outgoing_simple_method",
    Col("dual_max_output_flows_limit_simple_method")>>
ShortTermDual ==
  <<"cons_balance_storage_rep_period", Col("dual_balance_storage_rep_period")>>
LongTermDual ==
  <<"cons_balance_storage_over_clustered_year",
    Col("dual_balance_storage_over_clustered_year")>>
TransportDual(column_type) ==
  <<"cons_transport_flow_limit_simple_method", DualTransport(column_type)>>
UnitsOnSolution == <<"var_units_on", Col("solution")>>
InvestmentSolution == <<"var_assets_investment", Col("solution")>>
DecommissionSolution == <<"var_assets_decommission", Col("solution")>>

OptionalColumns ==
  {CompactDual, SimpleDual, ShortTermDual, LongTermDual, TransportDual("max"),
   TransportDual("min"), UnitsOnSolution, InvestmentSolution,
   DecommissionSolution}

\* every table has its asset column
BaseColumns == {<<c[1], Col("asset")>> : c \in OptionalColumns}

HasTable(sch, table) == \E c \in sch : c[1] = table

\* the schema variants of a data set
Schemas ==
  { BaseColumns \cup OptionalColumns,
    BaseColumns,
    BaseColumns \cup {SimpleDual, ShortTermDual, InvestmentSolution},
    BaseColumns \cup {CompactDual, LongTermDual, DecommissionSolution,
                      TransportDual("max"), UnitsOnSolution},
    {c \in BaseColumns \cup OptionalColumns : c[1] # CompactDual[1]} }

Command(name, path, storage_type, column_type) ==
  [name |-> name, db_path |-> path, storage_type |-> storage_type,
   column_type |-> column_type]

NoCommandYet == Command("none", Path("", ""), "", "")

StorageTypes == {"short-term", "long-term", "both"}

Commands ==
  {Command(n, p, "", "") :
     n \in {"get_production_price_resolution", "get_unit_on_cost",
            "get_capacity"},
     p \in {Path("a", ".duckdb"), Path("ghost", ".duckdb")}}
  \cup {Command("get_storage_price_resolution", p, st, "") :
          p \in {Path("a", ".duckdb"), Path("ghost", ".duckdb")},
          st \in StorageTypes \cup {"weekly"}}
  \cup {Command("get_transportation_price_resolution", Path("a", ".duckdb"),
                "", ct) : ct \in {"max", "min"}}

\* a statement as the command composes it: the placeholders "{...}" left
\* in its text, its "?" parameters, the arguments bound, its result
\* columns, the <<table, column>>s it reads, and the kind of rows it yields
Sql(holes, params, cols, reads, rows) ==
  [holes |-> holes, params |-> params, args |-> 0, cols |-> cols,
   reads |-> reads, rows |-> rows]

NoSql == Sql({}, 0, << >>, {}, "none")

CommandIdle ==
  /\ command = NoCommandYet
  /\ cpc = "idle"
  /\ checks = << >>
  /\ query = NoSql
  /\ result = NoResult
  /\ log = << >>
  /\ invoked = 0

NoCommand == schema = BaseColumns \cup OptionalColumns /\ CommandIdle

\* build_resolution_query(source, value, [asset], agg, resolution, false)
\* as get_renewables and its siblings submit it
Init ==
  /\ \E d \in Datasets : mapping = d.mapping /\ rpdata = d.data
  /\ \E a1 \in LayoutsA1, a2 \in LayoutsA2, b \in LayoutsB :
       source = a1 \cup a2 \cup b
  /\ source_1 = {}
  /\ series = "rep_periods"
  /\ year = 2030
  /\ period_length \in 1..MaxResolution
  /\ agg \in Aggs
  /\ NoMetadata
  /\ NoRequests
  /\ NoDocuments
  /\ NoFlows
  /\ NoCommand
  /\ pc = "numbered"
  /\ NoResults

(***************************************************************************)
(* The relations of the query, in the order of their definition            *)
(***************************************************************************)
\* the production_table of get_production_price_resolution
ProductionTableStep ==
  /\ pc = "production_table"
  /\ filtered_assets' = FilteredAssets(asset_category, filters, enable_metadata)
  /\ source' = ProductionTable(cons, filtered_assets', asset_category, grouper)
  /\ pc' = "numbered"
  /\ UNCHANGED <<queryVars, metaVars, connVars, cmdVars, ipcVars, repVars,
                 clusteredVars, final, lastVars>>

GroupedStep ==
  /\ pc = "numbered"
  /\ \E g \in GroupedOutcomes(source, year) : grouped' = g
  /\ pc' = "periods"
  /\ UNCHANGED <<inputVars, periods, raw, final_rep_periods, clusteredVars,
                 final, lastVars>>

PeriodsStep ==
  /\ pc = "periods"
  /\ periods' = Periods(grouped, mapping)
  /\ pc' = "raw"
  /\ UNCHANGED <<inputVars, grouped, raw, final_rep_periods, clusteredVars,
                 final, lastVars>>

RawStep ==
  /\ pc = "raw"
  /\ raw' = Raw(grouped, mapping, periods, rpdata)
  /\ pc' = "final_rep_periods"
  /\ UNCHANGED <<inputVars, grouped, periods, final_rep_periods,
                 clusteredVars, final, lastVars>>

\* build_resolution_query: LAST_PART_SQL.replace("{final}",
\* "final_rep_periods"); build_resolution_query_both: the clustered
\* relations and final follow
FinalRepPeriodsStep ==
  /\ pc = "final_rep_periods"
  /\ final_rep_periods' = FinalRepPeriods(raw)
  /\ IF series = "both"
       THEN final' = final /\ pc' = "final_clustered"
       ELSE final' = final_rep_periods' /\ pc' = "s_table"
  /\ UNCHANGED <<inputVars, grouped, periods, raw, clusteredVars, lastVars>>

FinalClusteredStep ==
  /\ pc = "final_clustered"
  /\ pre_processed' = PreProcessed(source_1, year)
  /\ final_clustered' = FinalClustered(pre_processed', mapping, rpdata)
  /\ pc' = "final"
  /\ UNCHANGED <<inputVars, repVars, final, lastVars>>

BothStep ==
  /\ pc = "final"
  /\ final' = Both(final_rep_periods, final_clustered)
  /\ pc' = "s_table"
  /\ UNCHANGED <<inputVars, repVars, clusteredVars, lastVars>>

STableStep ==
  /\ pc = "s_table"
  /\ s_table' = STable(final)
  /\ pc' = "resolution_periods"
  /\ UNCHANGED <<inputVars, repVars, clusteredVars, final, resolution_periods,
                 weighted, period_avg, merged>>

ResolutionPeriodsStep ==
  /\ pc = "resolution_periods"
  /\ resolution_periods' = ResolutionPeriods(s_table, period_length)
  /\ pc' = "weighted"
  /\ UNCHANGED <<inputVars, repVars, clusteredVars, final, s_table, weighted,
                 period_avg, merged>>

WeightedStep ==
  /\ pc = "weighted"
  /\ weighted' = Weighted(resolution_periods)
  /\ pc' = "period_avg"
  /\ UNCHANGED <<inputVars, repVars, clusteredVars, final, s_table,
                 resolution_periods, period_avg, merged>>

PeriodAvgStep ==
  /\ pc = "period_avg"
  /\ period_avg' = PeriodAvg(weighted, agg)
  /\ pc' = "merged"
  /\ UNCHANGED <<inputVars, repVars, clusteredVars, final, s_table,
                 resolution_periods, weighted, merged>>

MergedStep ==
  /\ pc = "merged"
  /\ merged' = Merged(period_avg)
  /\ pc' = "done"
  /\ UNCHANGED <<inputVars, repVars, clusteredVars, final, s_table,
                 resolution_periods, weighted, period_avg>>

Next ==
  \/ GroupedStep
  \/ PeriodsStep
  \/ RawStep
  \/ FinalRepPeriodsStep
  \/ STableStep
  \/ ResolutionPeriodsStep
  \/ WeightedStep
  \/ PeriodAvgStep
  \/ MergedStep

Spec == Init /\ [][Next]_vars

(***************************************************************************)
(* get_production_price_resolution on a data set that has the simple       *)
(* method table only: filter, breakdown, then the same query               *)
(***************************************************************************)
ConsRow(a, s, e, v) == SrcRow(a, 2030, 1, s, e, v)

ConsA ==
  { {ConsRow("A", 1, MaxTimesteps, 10)},
    {ConsRow("A", 1, 1, 10), ConsRow("A", 2, MaxTimesteps, 20)},
    {ConsRow("A", 1, 1, 10), ConsRow("A", 2, MaxTimesteps, 10)} }

ConsB ==
  { {},
    {ConsRow("B", 1, MaxTimesteps, 10)},
    {ConsRow("B", 1, 1, 10), ConsRow("B", 2, MaxTimesteps, 10)},
    {ConsRow("B", 1, 1, 20), ConsRow("B", 2, MaxTimesteps, 10)} }

ConsC == {ConsRow("C", 1, MaxTimesteps, 20)}

AssetCategories ==
  { {AcRow("A", 1, a[1]), AcRow("A", 6, a[2])} \cup b \cup
    {AcRow("C", 1, 3), AcRow("C", 6, 7)} :
    a \in {<<4, 7>>, <<3, 7>>},
    b \in { {AcRow("B", 1, 5), AcRow("B", 6, 7)}, {AcRow("B", 1, 3)} } }

AllowLists == {{}, {2}, {3, 4}, {7}}

FilterSpecs ==
  UNION {[roots -> AllowLists] : roots \in {{}, {1}, {6}, {1, 6}}}

Groupers == {<< >>, <<2>>, <<4, 2>>, <<1, 2>>, <<7, 3>>}

InitBreakdown ==
  /\ mapping = {MapRow(1, 1, 2)}
  /\ rpdata = {DataRow(1, 1)}
  /\ \E a \in ConsA, b \in ConsB : cons = a \cup b \cup ConsC
  /\ asset_category \in AssetCategories
  /\ filters \in FilterSpecs
  /\ grouper \in Groupers
  /\ enable_metadata = TRUE
  /\ NoRequests
  /\ NoDocuments
  /\ NoFlows
  /\ NoCommand
  /\ source = {}
  /\ source_1 = {}
  /\ series = "rep_periods"
  /\ year = 2030
  /\ period_length \in 1..MaxResolution
  /\ agg \in Aggs
  /\ pc = "production_table"
  /\ NoResults

NextBreakdown ==
  \/ ProductionTableStep
  \/ GroupedStep
  \/ PeriodsStep
  \/ RawStep
  \/ FinalRepPeriodsStep
  \/ STableStep
  \/ ResolutionPeriodsStep
  \/ WeightedStep
  \/ PeriodAvgStep
  \/ MergedStep

SpecBreakdown == InitBreakdown /\ [][NextBreakdown]_vars


(***************************************************************************)
(* get_storage_price_resolution with storage_type "both":                  *)
(* build_resolution_query_both on the short-term and the long-term table   *)
(***************************************************************************)
ClusteredA ==
  { {},
    {ClRow("A", 2030, 1, 1, 5)},
    {ClRow("A", 2030, 1, 2, 5)},
    {ClRow("A", 2030, 2, 3, 7)},
    {ClRow("A", 2030, 1, 1, 5), ClRow("A", 2030, 2, 2, 7)} }

ClusteredB == { {}, {ClRow("B", 2030, 1, 1, 5)} }

InitBoth ==
  /\ \E d \in {x \in Datasets : Cardinality({m.period : m \in x.mapping}) > 1} :
       mapping = d.mapping /\ rpdata = d.data
  /\ \E a1 \in LayoutsA1, a2 \in LayoutsA2, b \in LayoutsB :
       source = a1 \cup a2 \cup b
  /\ \E a \in ClusteredA, b \in ClusteredB : source_1 = a \cup b
  /\ series = "both"
  /\ year = 2030
  /\ period_length \in 1..MaxResolution
  /\ agg = "avg"
  /\ NoMetadata
  /\ NoRequests
  /\ NoDocuments
  /\ NoFlows
  /\ NoCommand
  /\ pc = "numbered"
  /\ NoResults

NextBoth ==
  \/ GroupedStep
  \/ PeriodsStep
  \/ RawStep
  \/ FinalRepPeriodsStep
  \/ FinalClusteredStep
  \/ BothStep
  \/ STableStep
  \/ ResolutionPeriodsStep
  \/ WeightedStep
  \/ PeriodAvgStep
  \/ MergedStep

SpecBoth == InitBoth /\ [][NextBoth]_vars

(***************************************************************************)
(* duckdb_conn.rs: the connection registry behind the CONN_HANDLER mutex   *)
(***************************************************************************)
pipelineVars ==
  <<source, queryVars, metaVars, filtered_assets, pc, repVars, clusteredVars,
    final, lastVars>>

\* what a call of run_query_rb or run_query_row by itself leaves alone
otherVars == <<pipelineVars, cmdVars, ipcVars>>

\* Mutex::lock on CONN_HANDLER succeeds when no thread holds it: no lock at all
CanLockAlways(holder) == TRUE

\* Mutex::lock on CONN_HANDLER succeeds when no thread holds it
CanLock(holder) == holder = 0

\* !pool.contains_key(db_path): every request opens a connection
NeedsOpenAlways(pool, path) == TRUE

\* !pool.contains_key(db_path)
NeedsOpen(pool, path) == path \notin DOMAIN pool

\* HashMap::insert
Insert(pool, path, conn) ==
  [x \in DOMAIN pool \cup {path} |-> IF x = path THEN conn ELSE pool[x]]

\* fetch_connection without the extension test
FetchConnectionNoExtension(pool, fs, path, conn) ==
  IF NeedsOpen(pool, path)
    THEN IF ~ fs[path].exists
           THEN [err |-> FileNotFoundError, pool |-> pool, opens |-> FALSE]
         ELSE IF ~ fs[path].valid
           THEN [err |-> OpenError, pool |-> pool, opens |-> FALSE]
         ELSE [err |-> << >>, pool |-> Insert(pool, path, conn), opens |-> TRUE]
  ELSE [err |-> << >>, pool |-> pool, opens |-> FALSE]

\* fetch_connection up to the call of with_conn: the error it returns
\* (empty when with_conn is called), the pool, and whether a connection
\* was opened
FetchConnection(pool, fs, path, conn) ==
  IF ~ EndsWith(path, ".duckdb")
    THEN [err |-> ExtensionError, pool |-> pool, opens |-> FALSE]
  ELSE IF NeedsOpen(pool, path)
    THEN IF ~ fs[path].exists
           THEN [err |-> FileNotFoundError, pool |-> pool, opens |-> FALSE]
         ELSE IF ~ fs[path].valid
           THEN [err |-> OpenError, pool |-> pool, opens |-> FALSE]
         ELSE [err |-> << >>, pool |-> Insert(pool, path, conn), opens |-> TRUE]
  ELSE [err |-> << >>, pool |-> pool, opens |-> FALSE]

\* .filter_map(Result::ok) over the mapped rows, one row at a time
MappedRow(fn, row) ==
  IF fn = "run_query_row"
    THEN IF row.null THEN << >> ELSE <<row.value>>
  ELSE <<row>>

\* a command calls run_query_rb or run_query_row
CallOf(t, requests) ==
  /\ tpc[t] = "idle"
  /\ calls[t] < MaxCalls
  /\ \E r \in requests : req' = [req EXCEPT ![t] = r]
  /\ tpc' = [tpc EXCEPT ![t] = "lock"]
  /\ res' = [res EXCEPT ![t] = NoResult]
  /\ buffer' = [buffer EXCEPT ![t] = << >>]
  /\ calls' = [calls EXCEPT ![t] = @ + 1]
  /\ UNCHANGED <<files, db_pool, opened, conn_handler, cursor, otherVars>>

Call(t) == CallOf(t, Requests)

\* CONN_HANDLER.lock().unwrap()
Lock(t) ==
  /\ tpc[t] = "lock"
  /\ CanLock(conn_handler)
  /\ conn_handler' = t
  /\ tpc' = [tpc EXCEPT ![t] = "fetch_connection"]
  /\ UNCHANGED <<files, db_pool, opened, req, cursor, buffer, res, calls,
                 otherVars>>

FetchConnectionStep(t) ==
  /\ tpc[t] = "fetch_connection"
  /\ LET f == FetchConnection(db_pool, files, req[t].path, Len(opened) + 1)
     IN /\ db_pool' = f.pool
        /\ opened' = IF f.opens THEN Append(opened, req[t].path) ELSE opened
        /\ IF f.err # << >>
             THEN /\ res' = [res EXCEPT ![t] = Err(f.err)]
                  /\ tpc' = [tpc EXCEPT ![t] = "return"]
             ELSE /\ res' = res
                  /\ tpc' = [tpc EXCEPT ![t] = "prepare"]
  /\ UNCHANGED <<files, conn_handler, req, cursor, buffer, calls,
                 otherVars>>

\* conn.prepare(&q)
Prepare(t) ==
  /\ tpc[t] = "prepare"
  /\ IF ~ req[t].q.parses
       THEN /\ res' = [res EXCEPT ![t] = Err(ParseError)]
            /\ tpc' = [tpc EXCEPT ![t] = "return"]
       ELSE /\ res' = res
            /\ tpc' = [tpc EXCEPT ![t] = "query"]
  /\ UNCHANGED <<files, db_pool, opened, conn_handler, req, cursor, buffer,
                 calls, otherVars>>

\* query_arrow / query_map with params_from_iter(args)
Query(t) ==
  /\ tpc[t] = "query"
  /\ IF req[t].q.params # req[t].q.args
       THEN /\ res' = [res EXCEPT ![t] = Err(ExecuteError)]
            /\ tpc' = [tpc EXCEPT ![t] = "return"]
            /\ cursor' = cursor
       ELSE /\ res' = res
            /\ tpc' = [tpc EXCEPT ![t] = "collect"]
            /\ cursor' = [cursor EXCEPT ![t] = req[t].q.rows]
  /\ UNCHANGED <<files, db_pool, opened, conn_handler, req, buffer, calls,
                 otherVars>>

\* .collect(): the next row of the statement
Collect(t) ==
  /\ tpc[t] = "collect"
  /\ cursor[t] # << >>
  /\ buffer' = [buffer EXCEPT
                  ![t] = @ \o MappedRow(req[t].fn, Head(cursor[t]))]
  /\ cursor' = [cursor EXCEPT ![t] = Tail(@)]
  /\ UNCHANGED <<files, db_pool, opened, conn_handler, tpc, req, res, calls,
                 otherVars>>

\* return Ok(res) from the closure
Collected(t) ==
  /\ tpc[t] = "collect"
  /\ cursor[t] = << >>
  /\ res' = [res EXCEPT ![t] = Ok(buffer[t])]
  /\ tpc' = [tpc EXCEPT ![t] = "return"]
  /\ UNCHANGED <<files, db_pool, opened, conn_handler, req, cursor, buffer,
                 calls, otherVars>>

\* a guard that outlives the call
StillLocked(holder) == holder

\* the temporary MutexGuard of CONN_HANDLER.lock().unwrap() is dropped at the
\* end of the statement, on Ok and on Err alike
Unlocked(holder) == 0

\* the call returns what the method returned
Return(t) ==
  /\ tpc[t] = "return"
  /\ conn_handler' = Unlocked(conn_handler)
  /\ tpc' = [tpc EXCEPT ![t] = "idle"]
  /\ buffer' = [buffer EXCEPT ![t] = << >>]
  /\ UNCHANGED <<files, db_pool, opened, req, cursor, res, calls,
                 otherVars>>

(***************************************************************************)
(* services/*.rs: the commands                                             *)
(***************************************************************************)
InvalidStorageType == <<"Invalid storage type">>

\* str::replace of the placeholders hs
Replace(q, hs) == [q EXCEPT !.holes = @ \ hs]

\* the placeholders the breakdown helpers fill in
BreakdownHoles ==
  {"breakdown_selects", "breakdown_group_by", "breakdown_joins",
   "breakdown_case_conditions"}

SourceCols ==
  <<"asset", "year", "rep_period", "time_block_start", "time_block_end",
    "dual_value">>

ClusteredCols ==
  <<"asset", "year", "period_block_start", "period_block_end", "dual_value">>

UnitOnCols == <<"milestone_year", "asset", "unit_on_cost">>

SeriesCols(group) ==
  <<group, "milestone_year", "global_start", "global_end", "y_axis">>

\* the columns of the result of a command
NormalColsOf(cmd) ==
  CASE cmd.name = "get_transportation_price_resolution" -> SeriesCols("carrier")
    [] cmd.name = "get_unit_on_cost" -> UnitOnCols
    [] OTHER -> SeriesCols("asset")

PRODUCTION_DATA_SIMPLE_SQL ==
  Sql(BreakdownHoles \cup {"filtered_assets"}, 0, SourceCols, {SimpleDual},
      "series")

PRODUCTION_DATA_COMPACT_SQL ==
  Sql(BreakdownHoles \cup {"filtered_assets"}, 0, SourceCols, {CompactDual},
      "series")

EMPTY_SQL ==
  Sql({"breakdown_case_conditions", "filtered_assets", "breakdown_joins",
       "breakdown_group_by"}, 0, SourceCols,
      {<<SimpleDual[1], Col("asset")>>}, "zeros")

SHORT_TERM_SQL ==
  Sql(BreakdownHoles \cup {"filtered_assets"}, 0, SourceCols, {ShortTermDual},
      "series")

LONG_TERM_SQL ==
  Sql(BreakdownHoles \cup {"filtered_assets"}, 0, ClusteredCols,
      {LongTermDual}, "series")

EMPTY_SHORT_TERM_SQL ==
  Sql({"breakdown_case_conditions", "filtered_assets", "breakdown_joins",
       "breakdown_group_by"}, 0, SourceCols,
      {<<ShortTermDual[1], Col("asset")>>}, "zeros")

EMPTY_LONG_TERM_SQL ==
  Sql(BreakdownHoles \cup {"filtered_assets"}, 0, ClusteredCols,
      {<<LongTermDual[1], Col("asset")>>}, "zeros")

TransportTableSql(column_type) ==
  Sql({}, 0, <<"carrier", "year", "rep_period", "time_block_start",
               "time_block_end", "dual_value">>,
      {TransportDual(column_type)}, "series")

TransportFallbackSql ==
  Sql({}, 1, SeriesCols("carrier"),
      {<<TransportDual("max")[1], Col("asset")>>}, "zeros")

UNIT_ON_COST_SQL ==
  Sql({"discount_factor_assets_cte", "breakdown_joins",
       "breakdown_case_conditions", "filtered_assets"}, 0, UnitOnCols,
      {UnitsOnSolution}, "series")

UNIT_ON_COST_SQL_FALLBACK == Sql({}, 0, UnitOnCols, {}, "zeros")

CAPACITY_SQL ==
  Sql({}, 1, <<"year", "investment", "decommission", "final_capacity",
               "initial_capacity">>,
      {InvestmentSolution, DecommissionSolution}, "series")

\* build_resolution_query / build_resolution_query_both: every placeholder
\* of the templates is replaced; one "year = ?" for each series
ResolutionQuerySql(group, series_count) ==
  Sql({}, series_count, SeriesCols(group), {}, "series")

\* UNION ALL of two source tables
UnionAll(a, b) ==
  Sql(a.holes \cup b.holes, a.params + b.params, a.cols,
      a.reads \cup b.reads,
      IF a.rows = "zeros" /\ b.rows = "zeros" THEN "zeros" ELSE "series")

\* format!("WITH <table> AS ({}) SELECT * FROM ({}) AS subquery", pre, sql):
\* the rows of a zero source table have year 0 and do not pass "year = ?"
WithTable(pre, sql) ==
  Sql(pre.holes \cup sql.holes, pre.params + sql.params, sql.cols,
      pre.reads \cup sql.reads,
      IF pre.rows = "zeros" THEN "empty" ELSE sql.rows)

\* format!("WITH storage_table AS ({}), storage_table_1 AS ({})", ..) before
\* the query over both: empty when neither table has rows of the year
WithTables(pre, pre_1, sql) ==
  Sql(pre.holes \cup pre_1.holes \cup sql.holes,
      pre.params + pre_1.params + sql.params, sql.cols,
      pre.reads \cup pre_1.reads \cup sql.reads,
      IF pre.rows = "zeros" /\ pre_1.rows = "zeros" THEN "empty"
      ELSE sql.rows)

Bind(q, n) == [q EXCEPT !.args = n]

\* the <<table, column>>s the command asks check_column_in_table about
ChecksOf(cmd) ==
  CASE cmd.name = "get_production_price_resolution" ->
         <<CompactDual, SimpleDual>>
    [] cmd.name = "get_storage_price_resolution" ->
         <<ShortTermDual, LongTermDual>>
    [] cmd.name = "get_transportation_price_resolution" ->
         <<TransportDual(cmd.column_type)>>
    [] cmd.name = "get_unit_on_cost" -> <<UnitsOnSolution>>
    [] cmd.name = "get_capacity" ->
         <<InvestmentSolution, DecommissionSolution>>

ProductionQuery(chk) ==
  LET sql == ResolutionQuerySql("asset", 1)
      filled(q) == Replace(Replace(q, BreakdownHoles), {"filtered_assets"})
  IN IF chk[1]
       THEN IF chk[2]
              THEN filled(WithTable(UnionAll(PRODUCTION_DATA_SIMPLE_SQL,
                                             PRODUCTION_DATA_COMPACT_SQL),
                                    sql))
            ELSE filled(WithTable(PRODUCTION_DATA_COMPACT_SQL, sql))
     ELSE IF chk[2]
       THEN filled(WithTable(PRODUCTION_DATA_SIMPLE_SQL, sql))
     ELSE EMPTY_SQL

StorageQuery(storage_type, chk) ==
  LET short_term_sql == IF ~ chk[1] THEN EMPTY_SHORT_TERM_SQL
                        ELSE SHORT_TERM_SQL
      long_term_sql == IF ~ chk[2] THEN EMPTY_LONG_TERM_SQL
                       ELSE LONG_TERM_SQL
      filled(q) == Replace(Replace(q, BreakdownHoles), {"filtered_assets"})
  IN CASE storage_type = "short-term" ->
            Bind(filled(WithTable(short_term_sql,
                                  ResolutionQuerySql("asset", 1))), 1)
       [] storage_type = "long-term" ->
            Bind(filled(WithTable(long_term_sql,
                                  ResolutionQuerySql("asset", 1))), 1)
       [] storage_type = "both" ->
            Bind(filled(WithTables(short_term_sql, long_term_sql,
                                   ResolutionQuerySql("asset", 2))), 2)

TransportQuery(column_type, chk) ==
  IF chk[1]
    THEN WithTable(TransportTableSql(column_type),
                   ResolutionQuerySql("carrier", 1))
  ELSE TransportFallbackSql

UnitOnQuery(chk) ==
  IF chk[1]
    THEN Replace(UNIT_ON_COST_SQL,
                 {"discount_factor_assets_cte", "breakdown_joins",
                  "breakdown_case_conditions", "filtered_assets"})
  ELSE UNIT_ON_COST_SQL_FALLBACK

\* the part of a command between its checks and its run_query_rb: the
\* error it returns, or the statement and arguments it submits
BuildQuery(cmd, chk) ==
  CASE cmd.name = "get_production_price_resolution" ->
         [err |-> << >>, q |-> Bind(ProductionQuery(chk), 1)]
    [] cmd.name = "get_storage_price_resolution" ->
         IF cmd.storage_type \in StorageTypes
           THEN [err |-> << >>, q |-> StorageQuery(cmd.storage_type, chk)]
         ELSE [err |-> InvalidStorageType, q |-> NoSql]
    [] cmd.name = "get_transportation_price_resolution" ->
         [err |-> << >>, q |-> Bind(TransportQuery(cmd.column_type, chk), 1)]
    [] cmd.name = "get_unit_on_cost" ->
         [err |-> << >>, q |-> Bind(UnitOnQuery(chk), 0)]
    [] cmd.name = "get_capacity" ->
         [err |-> << >>, q |-> Bind(CAPACITY_SQL, 1)]

\* the schema a.duckdb shows; no other path is opened
SchemaAt(sch, path) == IF path = Path("a", ".duckdb") THEN sch ELSE {}

\* check_column_in_table: PRAGMA table_info(table) through run_query_row,
\* then any(name == column_name)
CheckColumnInTable(pool, fs, sch, path, tc, conn) ==
  LET f == FetchConnection(pool, fs, path, conn)
  IN [pool |-> f.pool, opens |-> f.opens,
      ran |-> f.err = << >>,
      res |-> IF f.err # << >> THEN Err(f.err)
              ELSE IF ~ HasTable(SchemaAt(sch, path), tc[1])
                THEN Err(ParseError)
              ELSE Ok(\E c \in SchemaAt(sch, path) :
                        c[1] = tc[1] /\ c[2] = tc[2])]

\* run_query_rb(db_path, q, args)
RunQueryRb(pool, fs, sch, path, q, conn) ==
  LET f == FetchConnection(pool, fs, path, conn)
  IN [pool |-> f.pool, opens |-> f.opens,
      ran |-> f.err = << >>,
      res |-> IF f.err # << >> THEN Err(f.err)
              ELSE IF q.holes # {} \/ ~ (q.reads \subseteq SchemaAt(sch, path))
                THEN Err(ParseError)
              ELSE IF q.params # q.args THEN Err(ExecuteError)
              ELSE Ok([cols |-> q.cols, rows |-> q.rows])]

commandFrame == <<files, conn_handler, tpc, req, cursor, buffer, res, calls,
                  pipelineVars, ipcVars>>

\* the frontend invokes a command
Invoke ==
  /\ cpc \in {"idle", "returned"}
  /\ invoked < MaxCalls
  /\ \E c \in Commands : command' = c
  /\ cpc' = "check"
  /\ checks' = << >>
  /\ query' = NoSql
  /\ result' = NoResult
  /\ log' = << >>
  /\ invoked' = invoked + 1
  /\ UNCHANGED <<schema, db_pool, opened, commandFrame>>

\* the next check_column_in_table(..)? of the command
CheckStep ==
  /\ cpc = "check"
  /\ LET tc == ChecksOf(command)[Len(checks) + 1]
         r == CheckColumnInTable(db_pool, files, schema, command.db_path, tc,
                                 Len(opened) + 1)
     IN /\ db_pool' = r.pool
        /\ opened' = IF r.opens THEN Append(opened, command.db_path)
                     ELSE opened
        /\ log' = IF r.ran THEN Append(log, <<"PRAGMA table_info", tc[1]>>)
                  ELSE log
        /\ IF r.res.ok
             THEN /\ checks' = Append(checks, r.res.val)
                  /\ result' = result
                  /\ cpc' = IF Len(checks) + 1 = Len(ChecksOf(command))
                              THEN "build" ELSE "check"
             ELSE /\ checks' = checks
                  /\ result' = r.res
                  /\ cpc' = "returned"
  /\ UNCHANGED <<schema, command, query, invoked, commandFrame>>

\* the statement is composed, or the command returns its own error
BuildStep ==
  /\ cpc = "build"
  /\ LET b == BuildQuery(command, checks)
     IN IF b.err # << >>
          THEN /\ result' = Err(b.err)
               /\ query' = query
               /\ cpc' = "returned"
          ELSE /\ result' = result
               /\ query' = b.q
               /\ cpc' = IF command.name = "get_capacity"
                           THEN "add_columns" ELSE "run"
  /\ UNCHANGED <<schema, command, checks, log, invoked, db_pool, opened,
                 commandFrame>>

\* get_capacity: let _ = execute_batch(ADD_INV_COL_SQL / ADD_DEC_COL_SQL)
\* for each solution column found missing; the outcome is not looked at
ExecuteBatchStep ==
  /\ cpc = "add_columns"
  /\ \E inv_ok, dec_ok \in BOOLEAN :
       /\ (checks[1] => inv_ok) /\ (checks[2] => dec_ok)
       /\ schema' = schema
            \cup (IF ~ checks[1] /\ inv_ok THEN {InvestmentSolution} ELSE {})
            \cup (IF ~ checks[2] /\ dec_ok THEN {DecommissionSolution} ELSE {})
  /\ log' = log
       \o (IF ~ checks[1] THEN <<<<"ALTER TABLE", InvestmentSolution[1]>>>>
           ELSE << >>)
       \o (IF ~ checks[2] THEN <<<<"ALTER TABLE", DecommissionSolution[1]>>>>
           ELSE << >>)
  /\ cpc' = "run"
  /\ UNCHANGED <<command, checks, query, result, invoked, db_pool, opened,
                 commandFrame>>

\* run_query_rb(db_path, query, args)? and serialize_recordbatch
RunStep ==
  /\ cpc = "run"
  /\ LET r == RunQueryRb(db_pool, files, schema, command.db_path, query,
                         Len(opened) + 1)
     IN /\ db_pool' = r.pool
        /\ opened' = IF r.opens THEN Append(opened, command.db_path)
                     ELSE opened
        /\ log' = IF r.ran THEN Append(log, <<"query", command.name>>) ELSE log
        /\ result' = r.res
  /\ cpc' = "returned"
  /\ UNCHANGED <<schema, command, checks, query, invoked, commandFrame>>

InitCommands ==
  /\ NoRequests
  /\ NoDocuments
  /\ NoFlows
  /\ schema \in Schemas
  /\ CommandIdle
  /\ mapping = {} /\ rpdata = {} /\ source = {} /\ source_1 = {}
  /\ series = "rep_periods" /\ year = 2030 /\ period_length = 1
  /\ agg = "avg"
  /\ NoMetadata
  /\ pc = "none"
  /\ NoResults

NextCommands ==
  \/ Invoke
  \/ CheckStep
  \/ BuildStep
  \/ ExecuteBatchStep
  \/ RunStep

SpecCommands == InitCommands /\ [][NextCommands]_vars

InitConn ==
  /\ NoRequests
  /\ NoDocuments
  /\ NoFlows
  /\ NoCommand
  /\ mapping = {} /\ rpdata = {} /\ source = {} /\ source_1 = {}
  /\ series = "rep_periods" /\ year = 2030 /\ period_length = 1
  /\ agg = "avg"
  /\ NoMetadata
  /\ pc = "none"
  /\ NoResults

NextConn ==
  \/ \E t \in Threads : Call(t)
  \/ \E t \in Threads : Lock(t)
  \/ \E t \in Threads : FetchConnectionStep(t)
  \/ \E t \in Threads : Prepare(t)
  \/ \E t \in Threads : Query(t)
  \/ \E t \in Threads : Collect(t)
  \/ \E t \in Threads : Collected(t)
  \/ \E t \in Threads : Return(t)

SpecConn == InitConn /\ [][NextConn]_vars

\* a thread that is inside a call takes its next step, and a thread that
\* waits for CONN_HANDLER gets it if it is free again and again
Advance(t) ==
  \/ FetchConnectionStep(t)
  \/ Prepare(t)
  \/ Query(t)
  \/ Collect(t)
  \/ Collected(t)
  \/ Return(t)

FairConn == \A t \in Threads : WF_vars(Advance(t)) /\ SF_vars(Lock(t))

\* the calls that end in each of the ways a call can end: rows, each error
\* of fetch_connection, a parse error, an execution error
EndingRequests ==
  {Request("run_query_rb", p, OneRow) : p \in Paths}
  \cup {Request("run_query_row", Path("a", ".duckdb"), q) :
          q \in {Statement(FALSE, 0, 0, << >>),
                 Statement(TRUE, 1, 0, <<Row("x", FALSE)>>),
                 Statement(TRUE, 0, 0, <<Row("x", FALSE), Row("y", TRUE)>>)}}

NextConnFair ==
  \/ \E t \in Threads : CallOf(t, EndingRequests)
  \/ \E t \in Threads : Lock(t)
  \/ \E t \in Threads : Advance(t)

SpecConnFair == InitConn /\ [][NextConnFair]_vars /\ FairConn

(***************************************************************************)
(* serialize_recordbatch and the reader of its stream                      *)
(***************************************************************************)
\* the one-column schema of the statements
ValueSchema == <<"value">>

\* the ways arrow_res.collect::<Vec<RecordBatch>>() cuts the rows into
\* batches: any cut into consecutive batches, none or an empty one for no row
RECURSIVE Batches(_)
Batches(rows) ==
  IF rows = << >> THEN {<< >>, << << >> >>}
  ELSE {<<rows>>} \cup
       UNION {{<<SubSeq(rows, 1, n)>> \o rest :
                 rest \in Batches(SubSeq(rows, n + 1, Len(rows))) \ {<< >>}}
              : n \in 1..(Len(rows) - 1)}

\* a writer that stops after the first batch
SerializeFirstBatch(rec_batch, sch) ==
  <<[kind |-> "schema", schema |-> sch, rows |-> << >>]>>
  \o [i \in 1..(IF rec_batch = << >> THEN 0 ELSE 1) |->
        [kind |-> "batch", schema |-> sch, rows |-> rec_batch[i]]]
  \o <<[kind |-> "eos", schema |-> << >>, rows |-> << >>]>>

\* serialize_recordbatch: StreamWriter::try_new writes the schema message,
\* writer.write one message per batch, writer.finish the end-of-stream marker
SerializeRecordbatch(rec_batch, sch) ==
  <<[kind |-> "schema", schema |-> sch, rows |-> << >>]>>
  \o [i \in 1..Len(rec_batch) |->
        [kind |-> "batch", schema |-> sch, rows |-> rec_batch[i]]]
  \o <<[kind |-> "eos", schema |-> << >>, rows |-> << >>]>>

\* rb.column(idx) ... .into_iter().flatten(): the values of a batch that are
\* not NULL
RECURSIVE Flatten(_)
Flatten(rows) ==
  IF rows = << >> THEN << >>
  ELSE (IF Head(rows).null THEN << >> ELSE <<Head(rows).value>>)
       \o Flatten(Tail(rows))

\* deserialize_rb: StreamReader::try_new reads the schema message, then the
\* batches up to the end-of-stream marker; flat_map over the batches
RECURSIVE ReadBatches(_, _)
ReadBatches(stream, i) ==
  IF i > Len(stream) \/ stream[i].kind # "batch" THEN << >>
  ELSE Flatten(stream[i].rows) \o ReadBatches(stream, i + 1)

DeserializeRb(stream) ==
  IF stream = << >> \/ stream[1].kind # "schema" THEN << >>
  ELSE ReadBatches(stream, 2)

\* let res = run_query_rb(..)?; serialize_recordbatch(res.0, res.1)
SerializeStep(t) ==
  /\ tpc[t] = "idle"
  /\ req[t].fn = "run_query_rb"
  /\ res[t].ok
  /\ response[t].call # calls[t]
  /\ \E b \in Batches(res[t].val) :
       response' = [response EXCEPT
                      ![t] = [call   |-> calls[t],
                              stream |-> SerializeRecordbatch(b, ValueSchema)]]
  /\ UNCHANGED <<connVars, cmdVars, pipelineVars, doc, flow>>

\* thread 1 fetches record batches, thread 2 rows, of the same statements
RoundTripRequests(t) ==
  {Request(IF t = 1 THEN "run_query_rb" ELSE "run_query_row",
           Path("a", ".duckdb"), q) : q \in Statements}

\* each of the two runs its statement once
NextSerialize ==
  \/ \E t \in Threads : calls[t] = 0 /\ CallOf(t, RoundTripRequests(t))
  \/ \E t \in Threads : Lock(t)
  \/ \E t \in Threads : Advance(t)
  \/ \E t \in Threads : SerializeStep(t)

SpecSerialize == InitConn /\ [][NextSerialize]_vars

(***************************************************************************)
(* services/documentation.rs                                               *)
(***************************************************************************)
\* a message is the sequence of its parts, each a sequence of components
AccessDenied(file_path) == <<<<"Access denied">>, <<" to file: ">>, file_path>>
NotFound(file_path) == <<<<"Documentation file not found: ">>, file_path>>
NotAFile(file_path) == <<<<"Path is not a file: ">>, file_path>>
ReadFailed(file_path) == <<<<"Failed to read file ">>, file_path>>
Content(file_path) == <<"content of", file_path>>

\* a check of the file name alone
ValidateFileName(file_path) ==
  /\ file_path # << >>
  /\ \E a \in ALLOWED_DOC_PATHS : a[Len(a)] = file_path[Len(file_path)]

\* validate_file_path: ALLOWED_DOC_PATHS.contains(&file_path)
ValidateFilePath(file_path) == file_path \in ALLOWED_DOC_PATHS

docFrame == <<connVars, cmdVars, pipelineVars, response, flow>>

\* the frontend invokes read_documentation_file(app, file_path)
ReadDocumentationFile ==
  /\ doc.pc \in {"idle", "returned"}
  /\ doc.calls < MaxCalls
  /\ \E p \in DocPaths, k \in DiskKinds :
       doc' = [pc |-> "validate", file_path |-> p, disk |-> k,
               accessed |-> << >>, result |-> NoResult,
               calls |-> doc.calls + 1]
  /\ UNCHANGED docFrame

\* validate_file_path(file_path)?
ValidateStep ==
  /\ doc.pc = "validate"
  /\ doc' = IF ValidateFilePath(doc.file_path)
              THEN [doc EXCEPT !.pc = "read"]
            ELSE [doc EXCEPT !.pc = "returned",
                             !.result = Err(AccessDenied(doc.file_path))]
  /\ UNCHANGED docFrame

\* current_dir(), full_path.exists(), full_path.is_file() and
\* read_to_string(&full_path), each one only if the one before succeeded
ReadStep ==
  /\ doc.pc = "read"
  /\ doc' =
       CASE doc.disk = "missing" ->
              [doc EXCEPT !.pc = "returned",
                          !.accessed = <<"current_dir", "exists">>,
                          !.result = Err(NotFound(doc.file_path))]
         [] doc.disk = "directory" ->
              [doc EXCEPT !.pc = "returned",
                          !.accessed = <<"current_dir", "exists", "is_file">>,
                          !.result = Err(NotAFile(doc.file_path))]
         [] doc.disk = "unreadable" ->
              [doc EXCEPT !.pc = "returned",
                          !.accessed = <<"current_dir", "exists", "is_file",
                                         "read_to_string">>,
                          !.result = Err(ReadFailed(doc.file_path))]
         [] doc.disk = "file" ->
              [doc EXCEPT !.pc = "returned",
                          !.accessed = <<"current_dir", "exists", "is_file",
                                         "read_to_string">>,
                          !.result = Ok(Content(doc.file_path))]
  /\ UNCHANGED docFrame

NextDocs ==
  \/ ReadDocumentationFile
  \/ ValidateStep
  \/ ReadStep

SpecDocs == InitConn /\ [][NextDocs]_vars

(***************************************************************************)
(* services/import_export.rs                                               *)
(***************************************************************************)
\* a LEFT JOIN keeps the node with a NULL row when nothing matches
NullFlow == FlowRow(0, 0, 0)

LeftJoin(rows) == IF rows = {} THEN {NullFlow} ELSE rows

\* AGGREGATE_FLOW_SQL: location_nodes LEFT JOIN result_incomplete ri_import
\* ON to_id = ln.id LEFT JOIN result_incomplete ri_export ON from_id = ln.id,
\* WHERE ln.level = $1, GROUP BY ln.id, c.name with COALESCE(SUM(..), 0)
AggregateFlow(nodes, ri, level) ==
  {LET joined == LeftJoin({r \in ri : r.to_id = ln.id})
                 \X LeftJoin({r \in ri : r.from_id = ln.id})
   IN  [id          |-> ln.id,
        group       |-> ln.name,
        totalImport |-> ISum(joined, [j \in joined |-> j[1].tot_flow]),
        totalExport |-> ISum(joined, [j \in joined |-> j[2].tot_flow])]
   : ln \in {n \in nodes : n.level = level}}

\* get_all_aggregate_flows(db_path, {level: 1, year})
InitFlows ==
  /\ NoRequests
  /\ NoDocuments
  /\ NoCommand
  /\ mapping = {} /\ rpdata = {} /\ source = {} /\ source_1 = {}
  /\ series = "rep_periods" /\ year = 2030 /\ period_length = 1
  /\ agg = "avg"
  /\ NoMetadata
  /\ pc = "none"
  /\ NoResults
  /\ \E ri \in ResultIncompletes :
       flow = [pc |-> "aggregate", result_incomplete |-> ri, rows |-> {}]

AggregateFlowStep ==
  /\ flow.pc = "aggregate"
  /\ flow' = [flow EXCEPT
                !.pc = "done",
                !.rows = AggregateFlow(LocationNodes, flow.result_incomplete,
                                       1)]
  /\ UNCHANGED <<connVars, cmdVars, pipelineVars, response, doc>>

SpecFlows == InitFlows /\ [][AggregateFlowStep]_vars

(***************************************************************************)
(* A command that submits the query and returns its rows                   *)
(***************************************************************************)
\* let res = run_query_rb(db_path, wrapped_sql, [year])?;
\* return serialize_recordbatch(res.0, res.1)
ReturnSeries ==
  /\ pc = "done"
  /\ cpc = "run"
  /\ result' = Ok([cols |-> NormalColsOf(command), rows |-> merged])
  /\ cpc' = "returned"
  /\ UNCHANGED <<schema, command, checks, query, log, invoked, connVars,
                 ipcVars,
                 pipelineVars>>

SeriesCommands ==
  {Command("get_transportation_price_resolution", Path("a", ".duckdb"), "",
           "max"),
   Command("get_production_price_resolution", Path("a", ".duckdb"), "", "")}

\* the requested year is one with rows or one without
InitYear ==
  /\ mapping = {MapRow(1, 1, 2)}
  /\ rpdata = {DataRow(1, 1)}
  /\ \E a1 \in LayoutsA1, b \in LayoutsB :
       source = {r \in a1 \cup b : r.rep_period = 1}
  /\ source_1 = {}
  /\ series = "rep_periods"
  /\ year \in {2030, 2031}
  /\ period_length \in 1..MaxResolution
  /\ agg = "avg"
  /\ NoMetadata
  /\ NoRequests
  /\ NoDocuments
  /\ NoFlows
  /\ schema = BaseColumns \cup OptionalColumns
  /\ command \in SeriesCommands
  /\ cpc = "run"
  /\ checks = << >> /\ query = NoSql /\ result = NoResult /\ log = << >>
  /\ invoked = 1
  /\ pc = "numbered"
  /\ NoResults

NextYear ==
  \/ GroupedStep
  \/ PeriodsStep
  \/ RawStep
  \/ FinalRepPeriodsStep
  \/ STableStep
  \/ ResolutionPeriodsStep
  \/ WeightedStep
  \/ PeriodAvgStep
  \/ MergedStep
  \/ ReturnSeries

SpecYear == InitYear /\ [][NextYear]_vars

\* build_resolution_query with an agg that is neither "sum" nor "avg"
UnknownAggs == {"max", "AVG"}

InitAgg ==
  /\ mapping = {MapRow(1, 1, 2)}
  /\ rpdata = {DataRow(1, 1)}
  /\ \E a1 \in LayoutsA1, b \in LayoutsB :
       source = {r \in a1 \cup b : r.rep_period = 1}
  /\ source_1 = {}
  /\ series = "rep_periods"
  /\ year = 2030
  /\ period_length \in 1..MaxResolution
  /\ agg \in UnknownAggs
  /\ NoMetadata
  /\ NoRequests
  /\ NoDocuments
  /\ NoFlows
  /\ NoCommand
  /\ pc = "numbered"
  /\ NoResults

SpecAgg == InitAgg /\ [][Next]_vars

\* two representative periods that stand for the same period and differ in
\* resolution
InitAlias ==
  /\ mapping = {MapRow(1, 1, 1), MapRow(1, 2, 1)}
  /\ rpdata = {DataRow(1, 1), DataRow(2, 2)}
  /\ \E a1 \in LayoutsA1, a2 \in LayoutsA2, b \in LayoutsB :
       source = a1 \cup a2 \cup b
  /\ source_1 = {}
  /\ series = "rep_periods"
  /\ year = 2030
  /\ period_length \in 1..MaxResolution
  /\ agg \in Aggs
  /\ NoMetadata
  /\ NoRequests
  /\ NoDocuments
  /\ NoFlows
  /\ NoCommand
  /\ pc = "numbered"
  /\ NoResults

SpecAlias == InitAlias /\ [][Next]_vars

(***************************************************************************)
(* Properties of the final result                                          *)
(***************************************************************************)
SameKey(a, b) == a.asset = b.asset /\ a.milestone_year = b.milestone_year

\* b follows a in the global_start order of their (group, year)
AdjacentIn(T, a, b) ==
  /\ SameKey(a, b)
  /\ a.global_start < b.global_start
  /\ ~ \E c \in T : /\ SameKey(a, c)
                    /\ a.global_start < c.global_start
                    /\ c.global_start < b.global_start

\* C1: in the final result no two segments of one (group, year) that are
\* adjacent in global_start order carry the same value.
C1_Maximality ==
  pc = "done" =>
    \A a \in merged, b \in merged :
      AdjacentIn(merged, a, b) => a.y_axis # b.y_axis

\* two neighbouring bins of one group came out of the resampler with the
\* same value and the final compaction made one segment of them
C1_Witness ==
  /\ pc = "done"
  /\ \E a \in period_avg, b \in period_avg :
       /\ SameKey(a, b)
       /\ b.global_start_val = a.global_start_val + 1
       /\ a.y_axis = b.y_axis
       /\ \E m \in merged : /\ SameKey(m, a)
                            /\ m.global_start <= a.global_start_val
                            /\ m.global_end >= b.global_end_val
  /\ \E a \in merged, b \in merged : AdjacentIn(merged, a, b)

\* the hours of the year: resolution_hours x timestep_count of every period
PeriodHours(y, p) ==
  LET m == CHOOSE x \in mapping : x.year = y /\ x.period = p
      d == CHOOSE x \in rpdata : x.year = y /\ x.rep_period = m.rep_period
  IN  d.resolution * d.num_timesteps

Horizon(y) ==
  LET ps == {m.period : m \in {x \in mapping : x.year = y}}
  IN  ISum(ps, [p \in ps |-> PeriodHours(y, p)])

\* C2: the segments of each (group, year) of the final result are pairwise
\* non-overlapping and contiguous, start at 0 and end at the horizon.
C2_Coverage ==
  pc = "done" =>
    \A a \in merged :
      /\ a.global_start < a.global_end
      /\ (\A b \in merged : AdjacentIn(merged, a, b)
                              => a.global_end = b.global_start)
      /\ (~ \E b \in merged : AdjacentIn(merged, b, a)) => a.global_start = 0
      /\ (~ \E b \in merged : AdjacentIn(merged, a, b))
            => a.global_end = Horizon(a.milestone_year)

\* the part of segment e that lies in bin b of width w
ClipStart(e, b, w) == IF e.global_start >= b * w THEN e.global_start ELSE b * w
ClipEnd(e, b, w) ==
  IF e.global_end <= (b + 1) * w THEN e.global_end ELSE (b + 1) * w

\* the rows the resampler made of segment e
RowsOf(e) ==
  {r \in resolution_periods : /\ SameKey(r, e)
                              /\ r.global_start = e.global_start
                              /\ r.global_end = e.global_end}

\* the rows the resampler put in the bin of the result row r
BinRows(r) ==
  {x \in resolution_periods : SameKey(x, r) /\ x.period = r.global_start_val}

\* C3: the value returned for a bin is the sum of clipped duration x value
\* in mode sum, and that sum divided by the summed durations in mode avg.
C3_SumAndAvg ==
  pc = "done" =>
    \A r \in period_avg :
      LET wp == RSum(BinRows(r),
                     [x \in BinRows(r) |->
                        RMul(Rat(x.period_end - x.period_start), x.y_axis)])
          du == ISum(BinRows(r),
                     [x \in BinRows(r) |-> x.period_end - x.period_start])
      IN  r.y_axis = IF agg = "sum" THEN wp ELSE RDivNullIf(wp, Rat(du))

\* C4: a segment [s, e) yields one row per bin from floor(s/W) to
\* floor((e-1)/W), clipped to the bin; every clipped duration is in 1..W
\* and the durations of a segment add up to e - s.
C4_Clipping ==
  pc \in {"weighted", "period_avg", "merged", "done"} =>
    \A e \in s_table :
      LET w == period_length
          bins == FloorDiv(e.global_start, w)..FloorDiv(e.global_end - 1, w)
      IN  /\ {r.period : r \in RowsOf(e)} = bins
          /\ Cardinality(RowsOf(e)) = Cardinality(bins)
          /\ \A r \in RowsOf(e) :
               /\ r.period_start = ClipStart(e, r.period, w)
               /\ r.period_end = ClipEnd(e, r.period, w)
               /\ r.period_end - r.period_start > 0
               /\ r.period_end - r.period_start <= w
          /\ ISum(RowsOf(e), [r \in RowsOf(e) |-> r.period_end - r.period_start])
               = e.global_end - e.global_start

\* the scenario of the specification: one entity, one representative period
\* of weight 2, blocks (1, 2, 10) and (3, 3, 20), bin width 3
Scenario ==
  /\ source = {SrcRow("A", 2030, 1, 1, 2, 10), SrcRow("A", 2030, 1, 3, 3, 20)}
  /\ mapping = {[year |-> 2030, period |-> 1, rep_period |-> 1, weight |-> 2]}
  /\ rpdata = {[year |-> 2030, rep_period |-> 1, resolution |-> 1,
                num_timesteps |-> 3]}
  /\ year = 2030
  /\ period_length = 3

\* C5: the scenario returns the one segment (A, 2030, 0, 3) of value 80 in
\* mode sum and 80/3 in mode avg.
C5_Scenario ==
  (Scenario /\ pc = "done") =>
    merged = {[asset |-> "A", milestone_year |-> 2030,
               global_start |-> 0, global_end |-> 3,
               y_axis |-> IF agg = "sum" THEN Rat(80) ELSE Norm(80, 3)]}

\* a global timeline that is compacted, gap-free from 0, and whose segment
\* bounds are multiples of w, the smallest segment length
NativeGranularity(st, w) ==
  /\ st # {}
  /\ \A e \in st : e.global_start % w = 0 /\ e.global_end % w = 0
  /\ \E e \in st : e.global_end - e.global_start = w
  /\ \A a \in st :
       /\ (\A b \in st : AdjacentIn(st, a, b)
             => a.global_end = b.global_start /\ a.y_axis # b.y_axis)
       /\ (~ \E b \in st : AdjacentIn(st, b, a)) => a.global_start = 0

\* C6: resampled at its native granularity, a compacted timeline comes back
\* unchanged, in both modes.
C6_ResampleIdentity ==
  (pc = "done" /\ NativeGranularity(s_table, period_length)) =>
    merged = s_table

(***************************************************************************)
(* Properties of the filter and of the breakdown                           *)
(***************************************************************************)
\* the whole query of build_resolution_query on a source table whose sort
\* keys are distinct inside every partition, up to the resampler
ResampledOf(src) ==
  LET g   == GroupedOf(Compact(Numbered(src)), year)
      rw  == Raw(g, mapping, Periods(g, mapping), rpdata)
      st  == STable(FinalRepPeriods(rw))
  IN  PeriodAvg(Weighted(ResolutionPeriods(st, period_length)), agg)

\* the nodes on the path from a node up to its root
RECURSIVE PathUp(_)
PathUp(n) ==
  IF \E c \in Category : c.id = n
    THEN {n} \cup PathUp((CHOOSE c \in Category : c.id = n).parent_id)
    ELSE {}

\* the entity has a leaf category in the subtree of the node
InSubtree(a, node) ==
  \E r \in asset_category : r.asset = a /\ node \in PathUp(r.leaf_id)

\* the entity's leaf category under the root is in the subtree of the node
InSubtreeOfRoot(a, root, node) ==
  \E r \in asset_category :
    r.asset = a /\ r.root_id = root /\ node \in PathUp(r.leaf_id)

\* the entities whose constraint rows reach the production table
Producing(a) ==
  \E x \in Asset : x.asset = a /\ x \in filtered_assets
                   /\ x.type \in {"producer", "storage", "conversion"}

SameBlock(r, c) ==
  /\ r.year = c.year /\ r.rep_period = c.rep_period
  /\ r.time_block_start = c.time_block_start
  /\ r.time_block_end = c.time_block_end

\* name is the bucket of entity a: the first matching node of the grouper,
\* "Other" when none matches
IsBucketOf(name, a) ==
  \/ \E i \in 1..Len(grouper) :
       /\ InSubtree(a, grouper[i])
       /\ \A j \in 1..(i - 1) : ~ InSubtree(a, grouper[j])
       /\ name = NodeName(grouper[i])
  \/ /\ \A i \in 1..Len(grouper) : ~ InSubtree(a, grouper[i])
     /\ name = "Other"

ValueSum(S) == ISum(S, [c \in S |-> c.value])

\* C7: rows of several entities that fall into one bucket are summed, and
\* in mode sum the buckets of a (year, bin) add up to the total of the
\* entities.
C7_Conservation ==
  (pc # "production_table" /\ grouper # << >> /\ enable_metadata) =>
    /\ \A r \in source :
         LET members == {c \in cons : /\ Producing(c.asset)
                                      /\ SameBlock(r, c)
                                      /\ IsBucketOf(r.asset, c.asset)}
         IN  /\ r.value = ValueSum(members)
             /\ \A q \in source :
                  (q.asset = r.asset /\ SameBlock(q, r)) => q = r
    /\ (pc = "done" /\ agg = "sum") =>
         LET base == ResampledOf(ProductionTable(cons, filtered_assets,
                                                 asset_category, << >>))
             y(T, b) == LET rs == {r \in T : r.global_start_val = b}
                        IN  RSum(rs, [r \in rs |-> r.y_axis])
         IN  \A b \in {r.global_start_val : r \in period_avg \cup base} :
               y(period_avg, b) = y(base, b)

\* C8 as stated: retained exactly when every root of the spec has an allowed
\* node above the entity's leaf.
C8_FilterEveryRoot ==
  (pc # "production_table" /\ enable_metadata) =>
    \A a \in Asset :
      a \in filtered_assets <=>
        \A root \in DOMAIN filters :
          \E n \in filters[root] : InSubtreeOfRoot(a.asset, root, n)

Allowed(a) ==
  \A root \in DOMAIN filters :
    filters[root] # {} =>
      \E n \in filters[root] : InSubtreeOfRoot(a, root, n)

\* C8: an entity is retained exactly when every root of the spec that has a
\* non-empty allow-list has an allowed node above the entity's leaf, and no
\* source row and no output key stems from an entity the filter excludes.
C8_Filter ==
  (pc # "production_table" /\ enable_metadata) =>
    /\ \A a \in Asset : a \in filtered_assets <=> Allowed(a.asset)
    /\ \A r \in source :
         \E c \in cons : /\ Allowed(c.asset)
                         /\ SameBlock(r, c) /\ r.value = c.value
                         /\ r.asset = BreakdownCase(asset_category, c.asset,
                                                    grouper)
    /\ \A m \in merged :
         \E c \in cons : /\ Allowed(c.asset)
                         /\ c.year = m.milestone_year
                         /\ m.asset = BreakdownCase(asset_category, c.asset,
                                                    grouper)

\* two roots are filtered, an entity with rows passes one root only and is
\* excluded, another passes both and is in the result
C8_Witness ==
  /\ pc = "done" /\ enable_metadata
  /\ DOMAIN filters = {1, 6}
  /\ \A root \in DOMAIN filters : filters[root] # {}
  /\ grouper = << >>
  /\ \E c \in cons :
       /\ \E x \in Asset : x.asset = c.asset /\ x.type = "producer"
       /\ ~ Allowed(c.asset)
       /\ \E root \in DOMAIN filters :
            \E n \in filters[root] : InSubtreeOfRoot(c.asset, root, n)
       /\ ~ \E m \in merged : m.asset = c.asset
  /\ \E c \in cons, m \in merged : Allowed(c.asset) /\ m.asset = c.asset

\* C9: with a non-empty grouper every row carries the name of the first
\* node of the grouper whose subtree holds the entity's leaf, "Other" when
\* there is none.
C9_FirstMatch ==
  (pc # "production_table" /\ grouper # << >>) =>
    /\ \A c \in cons :
         Producing(c.asset) =>
           \E r \in source : /\ SameBlock(r, c) /\ r.value = c.value
                             /\ IsBucketOf(r.asset, c.asset)
    /\ \A r \in source :
         \E c \in cons : /\ Producing(c.asset)
                         /\ SameBlock(r, c) /\ r.value = c.value
                         /\ IsBucketOf(r.asset, c.asset)

\* an entity in the subtrees of the first two nodes of the grouper carries
\* the name of the first, and another entity is in "Other"
C9_Witness ==
  /\ pc = "done"
  /\ Len(grouper) >= 2
  /\ \E c \in cons, r \in source :
       /\ Producing(c.asset)
       /\ InSubtree(c.asset, grouper[1]) /\ InSubtree(c.asset, grouper[2])
       /\ SameBlock(r, c) /\ r.asset = NodeName(grouper[1])
  /\ \E c \in cons, r \in source :
       /\ Producing(c.asset)
       /\ \A i \in 1..Len(grouper) : ~ InSubtree(c.asset, grouper[i])
       /\ SameBlock(r, c) /\ r.asset = "Other"

(***************************************************************************)
(* Properties of the combination of two series                             *)
(***************************************************************************)
KeyOf(r) == <<r.asset, r.milestone_year, r.period>>
KeysOf(T) == {KeyOf(r) : r \in T}
RowsAt(T, k) == {r \in T : KeyOf(r) = k}

\* C10: the combined series holds the sum for every (group, year, period)
\* key of both series and the unchanged rows of every key of one series;
\* no key of either series is missing.
C10_UnionWithSum ==
  pc \in {"s_table", "resolution_periods", "weighted", "period_avg",
          "merged", "done"} =>
    /\ KeysOf(final) = KeysOf(final_rep_periods) \cup KeysOf(final_clustered)
    /\ \A k \in KeysOf(final_rep_periods) \cup KeysOf(final_clustered) :
         RowsAt(final, k) =
           IF k \in KeysOf(final_rep_periods) \cap KeysOf(final_clustered)
             THEN {[r EXCEPT !.y_axis = RAdd(r.y_axis, c.y_axis)] :
                     r \in RowsAt(final_rep_periods, k),
                     c \in RowsAt(final_clustered, k)}
           ELSE IF k \in KeysOf(final_rep_periods)
             THEN RowsAt(final_rep_periods, k)
           ELSE RowsAt(final_clustered, k)

(***************************************************************************)
(* Properties of the connection registry                                   *)
(***************************************************************************)
Executing(t) == tpc[t] \in {"prepare", "query", "collect"}

LeavesFetch(t) == tpc[t] = "fetch_connection" /\ tpc'[t] # "fetch_connection"

\* C15: run_query_row returns Ok with one mapped element for every row of
\* the statement, in order, or an error; never Ok with fewer elements.
C15_NoSilentTruncation ==
  \A t \in Threads :
    (req[t].fn = "run_query_row" /\ res[t].ok) =>
      res[t].val = [i \in 1..Len(req[t].q.rows) |-> req[t].q.rows[i].value]

RegistryState ==
  /\ Cardinality(DOMAIN db_pool) = Len(opened)
  /\ DOMAIN db_pool = {opened[i] : i \in DOMAIN opened}

RegistryStep ==
  /\ \A p \in DOMAIN db_pool :
       p \in DOMAIN db_pool' /\ db_pool'[p] = db_pool[p]
  /\ (\A t \in Threads : ~ LeavesFetch(t)) => db_pool' = db_pool
  /\ \A t \in Threads :
       LeavesFetch(t) =>
         LET p == req[t].path
         IN IF p \in DOMAIN db_pool
              THEN db_pool' = db_pool /\ tpc'[t] = "prepare"
            ELSE IF EndsWith(p, ".duckdb") /\ files[p].exists
                    /\ files[p].valid
              THEN /\ DOMAIN db_pool' = DOMAIN db_pool \cup {p}
                   /\ Cardinality(DOMAIN db_pool')
                        = Cardinality(DOMAIN db_pool) + 1
            ELSE db_pool' = db_pool

\* C16: the registry holds one handle per path opened successfully; a
\* request for a path in the registry reuses its handle, a request for a
\* new valid path inserts one entry, no entry is removed or replaced.
C16_Registry == [][RegistryStep /\ RegistryState /\ RegistryState']_vars

C16_Witness ==
  /\ Len(opened) = 2
  /\ \E t \in Threads :
       calls[t] = 2 /\ tpc[t] = "prepare" /\ req[t].path = opened[1]

\* C17: no two queries are executing against the same handle, and a thread
\* that does not hold the lock has no rows left to collect.
C17_OneQueryPerHandle ==
  /\ \A t1, t2 \in Threads :
       (t1 # t2 /\ Executing(t1) /\ Executing(t2)) =>
         req[t1].path # req[t2].path
  /\ \A t \in Threads :
       (conn_handler # t \/ tpc[t] = "return") => cursor[t] = << >>
  /\ \A t \in Threads :
       (tpc[t] = "return" /\ res[t].ok /\ req[t].fn = "run_query_rb") =>
         res[t].val = req[t].q.rows

C17_Witness ==
  \E t1, t2 \in Threads :
    /\ t1 # t2
    /\ tpc[t1] = "collect" /\ cursor[t1] # << >>
    /\ tpc[t2] = "lock"
    /\ req[t1].path = req[t2].path

\* C18: a request on one dataset does not wait for a running query on
\* another dataset: while a query on dataset A is executing, a request
\* on dataset B that is about to start can take its handle and execute.
C18_Independent ==
  \A t1, t2 \in Threads :
    (/\ Executing(t1)
     /\ tpc[t2] = "lock"
     /\ req[t1].path # req[t2].path) => ENABLED Lock(t2)

\* C20: fetch_connection on a path without the ".duckdb" extension returns
\* an error mentioning ".duckdb"; on a ".duckdb" path outside the registry
\* whose file does not exist it returns a "file not found" error; neither
\* runs the closure nor changes the registry.
C20_PathErrors ==
  [][\A t \in Threads :
       LET p == req[t].path
           Rejected(part) ==
             /\ ~ res'[t].ok
             /\ StrContains(res'[t].err, part)
             /\ tpc'[t] = "return"
             /\ db_pool' = db_pool /\ opened' = opened
             /\ cursor' = cursor /\ buffer' = buffer
       IN LeavesFetch(t) =>
            /\ ~ EndsWith(p, ".duckdb") => Rejected(".duckdb")
            /\ (/\ EndsWith(p, ".duckdb")
                /\ p \notin DOMAIN db_pool
                /\ ~ files[p].exists) => Rejected("file not found")]_vars

C20_Witness ==
  \E t1, t2 \in Threads :
    /\ res[t1] = Err(ExtensionError)
    /\ res[t2] = Err(FileNotFoundError)

(***************************************************************************)
(* Properties of the commands                                              *)
(***************************************************************************)
\* the command found the column(s) of its schema variant missing
MissingColumnCase ==
  /\ Len(checks) = Len(ChecksOf(command))
  /\ CASE command.name = "get_production_price_resolution" ->
            ~ checks[1] /\ ~ checks[2]
       [] command.name = "get_storage_price_resolution" ->
            (~ checks[1] \/ ~ checks[2])
            /\ command.storage_type \in StorageTypes
       [] command.name = "get_transportation_price_resolution" -> ~ checks[1]
       [] command.name = "get_unit_on_cost" -> ~ checks[1]
       [] OTHER -> FALSE

\* C11: a command that finds its dual or solution column missing returns
\* Ok with a zero-valued series of the columns of its normal result.
C11_ZeroSeries ==
  (cpc = "returned" /\ MissingColumnCase) =>
    /\ result.ok
    /\ result.val.cols = NormalColsOf(command)
    /\ result.val.rows \in {"zeros", "empty"}

\* C12: get_storage_price_resolution with an unknown storage_type returns
\* "Invalid storage type" without running a statement or opening or
\* inserting a handle before, whatever the data set.
C12_InvalidStorageType ==
  [][(/\ command.name = "get_storage_price_resolution"
      /\ command.storage_type \notin StorageTypes
      /\ cpc \in {"check", "build"}) =>
       /\ log' = log
       /\ db_pool' = db_pool /\ opened' = opened
       /\ cpc' = "returned" => result' = Err(InvalidStorageType)]_vars

\* C19: no step of any command changes the schema of the data set.
C19_ReadOnly == [][schema' = schema]_vars

\* C13: a query whose aggregation mode is neither "sum" nor "avg" is
\* rejected: it computes no aggregate and produces no result.
C13_UnknownAggRejected ==
  agg \notin Aggs => period_avg = {} /\ merged = {} /\ pc # "done"

YearHasRows == \E r \in source : r.year = year

\* C14: for a year without time-block rows a command returns an empty
\* result and no error, except get_transportation_price_resolution, which
\* returns an error.
C14_EmptyYear ==
  (cpc = "returned" /\ ~ YearHasRows) =>
    IF command.name = "get_transportation_price_resolution"
      THEN ~ result.ok
    ELSE result.ok /\ result.val.rows = {}

(***************************************************************************)
(* Properties of the stages of the query                                   *)
(***************************************************************************)
\* the source rows of one partition of numbered, in the requested year
PartitionRows(a, rp) ==
  {r \in source : r.asset = a /\ r.rep_period = rp /\ r.year = year}

SourcePartitions ==
  {<<r.asset, r.rep_period>> : r \in {x \in source : x.year = year}}

\* r1 and r2 have the same value and so has every row between them
SameRun(P, r1, r2) ==
  /\ r1.value = r2.value
  /\ \A x \in P :
       (\/ (r1.time_block_start <= x.time_block_start
            /\ x.time_block_start <= r2.time_block_start)
        \/ (r2.time_block_start <= x.time_block_start
            /\ x.time_block_start <= r1.time_block_start))
       => x.value = r1.value

RunsOf(P) == {{x \in P : SameRun(P, r, x)} : r \in P}

\* row number over the partition minus row number over (partition, value)
Difference(P, r) ==
  Cardinality({x \in P : x.time_block_start <= r.time_block_start})
  - Cardinality({x \in P : /\ x.value = r.value
                           /\ x.time_block_start <= r.time_block_start})

BlocksOfPeriod(p) ==
  {g \in grouped :
     \E m \in mapping :
       m.year = g.year /\ m.rep_period = g.rep_period /\ m.period = p}

IntervalsOfPeriod(p) == {i \in periods : i.year = year /\ i.period = p}

BoundariesOfPeriod(p) ==
  {0} \cup {g.time_block_end : g \in BlocksOfPeriod(p)}

PeriodsWithBlocks == {p \in {m.period : m \in mapping} : BlocksOfPeriod(p) # {}}

\* interval i lies inside block g, whose hours are [start - 1, end)
InsideBlock(i, g) ==
  g.time_block_start - 1 <= i.start_hour /\ i.end_hour <= g.time_block_end

OutsideBlock(i, g) ==
  i.end_hour <= g.time_block_start - 1 \/ g.time_block_end <= i.start_hour

Contributions(a, p) ==
  {j \in grouped \X mapping \X rpdata :
     /\ j[1].asset = a
     /\ j[1].year = j[2].year /\ j[1].rep_period = j[2].rep_period
     /\ j[2].year = p.year /\ j[2].period = p.period
     /\ Contains(j[1], p)
     /\ j[3].year = j[2].year /\ j[3].rep_period = j[2].rep_period}

\* the rows of raw that stand for interval p of group a
RawRowsOf(a, p) ==
  {r \in raw :
     /\ r.asset = a /\ r.milestone_year = p.year /\ r.period = p.period
     /\ \E j \in Contributions(a, p) :
          /\ r.start_hour = p.start_hour * j[3].resolution
          /\ r.end_hour = p.end_hour * j[3].resolution}

ContributionSum(a, p) ==
  LET J == Contributions(a, p)
  IN  RSum(J, [j \in J |-> Norm(j[1].value * j[2].weight, j[3].resolution)])

\* C27: every (group, year, period, interval) that a compacted block contains
\* has exactly one row in raw, whose value is the sum of value * weight /
\* resolution over the blocks and representative periods that contain it.
C27_WeightedValue ==
  pc \notin {"numbered", "periods", "raw"} =>
    \A p \in periods : \A a \in {g.asset : g \in grouped} :
      Contributions(a, p) # {} =>
        /\ Cardinality(RawRowsOf(a, p)) = 1
        /\ \A r \in RawRowsOf(a, p) : r.y_axis = ContributionSum(a, p)

C27_Witness ==
  /\ pc = "final_rep_periods"
  /\ \E p \in periods : \E a \in {g.asset : g \in grouped} :
       /\ Cardinality({j[2].rep_period : j \in Contributions(a, p)}) >= 2
       /\ Cardinality(RawRowsOf(a, p)) = 1

\* the hours of period p: resolution * num_timesteps of a representative
\* period that stands for it
HoursOfPeriod(p) ==
  LET d == CHOOSE d \in rpdata :
             \E m \in mapping :
               /\ m.period = p /\ m.year = d.year
               /\ m.rep_period = d.rep_period
  IN  d.resolution * d.num_timesteps

EarlierPeriods(p) == {q \in {m.period : m \in mapping} : q < p}

ExpectedOffset(p) ==
  ISum(EarlierPeriods(p), [q \in EarlierPeriods(p) |-> HoursOfPeriod(q)])

\* C28: the offset of a period is the sum of resolution * num_timesteps of
\* the earlier periods of the year, whatever rows the group has in them, and
\* s_table is final moved by that offset.
C28_GlobalOffset ==
  pc \in {"resolution_periods", "weighted", "period_avg", "merged", "done"} =>
    s_table = {[asset          |-> f.asset,
                milestone_year |-> f.milestone_year,
                global_start   |-> ExpectedOffset(f.period) + f.start_hour,
                global_end     |-> ExpectedOffset(f.period) + f.end_hour,
                y_axis         |-> f.y_axis] : f \in final}

\* the filter without the roots whose allow-list is empty
WithoutEmptyRoots(flt) ==
  [root \in {r \in DOMAIN flt : flt[r] # {}} |-> flt[root]]

\* C30: a root with an empty allow-list gets no condition; the retained
\* entities and the rows made from them are those of the filter without that
\* root, and a filter whose lists are all empty has no condition at all and
\* retains every entity.
C30_EmptyAllowList ==
  (pc # "production_table" /\ enable_metadata) =>
    LET kept == WithoutEmptyRoots(filters)
        retained == FilteredAssets(asset_category, kept, TRUE)
    IN  /\ \A root \in DOMAIN filters :
             filters[root] = {} => root \notin ConditionRoots(filters)
        /\ filtered_assets = retained
        /\ source = ProductionTable(cons, retained, asset_category, grouper)
        /\ (\A root \in DOMAIN filters : filters[root] = {}) =>
             /\ ConditionRoots(filters) = {}
             /\ filtered_assets = Asset

\* one root has an empty list and the other one excludes an entity that has
\* rows, while another entity is retained and is in the result
C30_Witness ==
  /\ pc = "done" /\ enable_metadata
  /\ \E empty, other \in DOMAIN filters :
       filters[empty] = {} /\ filters[other] # {}
  /\ \E c \in cons : \E x \in Asset \ filtered_assets : x.asset = c.asset
  /\ \E x \in filtered_assets :
       x.type = "producer" /\ \E m \in merged : m.asset = x.asset

\* C24: with fair scheduling every call that waits for the registry ends:
\* it has returned a result or an error and the registry is unlocked.
C24_Termination ==
  \A t \in Threads :
    (tpc[t] = "lock") ~>
      (tpc[t] = "idle" /\ res[t] # NoResult /\ conn_handler = 0)

\* a call waits for the registry while the holder is about to return an error
C24_Witness ==
  \E t, u \in Threads :
    /\ t # u
    /\ tpc[t] = "lock"
    /\ conn_handler = u
    /\ tpc[u] = "return"
    /\ ~ res[u].ok

\* the text of a statement: all of it but the bound arguments
SqlText(q) == [q EXCEPT !.args = 0]

\* what the checks of command c find in the schema
ChecksFound(c) ==
  [i \in 1..Len(ChecksOf(c)) |-> ChecksOf(c)[i] \in SchemaAt(schema, c.db_path)]

\* C23: get_transportation_price_resolution submits the same text whatever
\* column_type the caller gives; the value is only a bound argument.
C23_Parameterized ==
  (cpc = "run" /\ command.name = "get_transportation_price_resolution") =>
    \A c \in Commands :
      (c.name = command.name /\ c.db_path = command.db_path) =>
        SqlText(BuildQuery(c, ChecksFound(c)).q) = SqlText(query)

C22_AllowedPathsOnly ==
  /\ doc.accessed # << >> => doc.file_path \in ALLOWED_DOC_PATHS
  /\ doc.pc = "returned" =>
       /\ doc.result.ok =>
            /\ doc.file_path \in ALLOWED_DOC_PATHS
            /\ doc.result.val = Content(doc.file_path)
       /\ doc.file_path \notin ALLOWED_DOC_PATHS =>
            /\ ~ doc.result.ok
            /\ StrContains(doc.result.err, <<"Access denied">>)
            /\ StrContains(doc.result.err, doc.file_path)
            /\ doc.accessed = << >>

\* a path that reaches README.md through ".." is refused although the file
\* is there, after a listed file was read
C22_Witness ==
  /\ doc.pc = "returned"
  /\ doc.calls = 2
  /\ doc.file_path = <<"docs", "..", "README.md">>
  /\ doc.disk = "file"
  /\ ~ doc.result.ok

\* the sum of tot_flow over the rows
TotalFlow(rows) == ISum(rows, [r \in rows |-> r.tot_flow])

\* C29: every node of the level has one row, whose totalImport is the sum of
\* tot_flow over the flows into it and whose totalExport is the sum over the
\* flows out of it, 0 when there is none.
C29_ImportExport ==
  flow.pc = "done" =>
    \A ln \in {n \in LocationNodes : n.level = 1} :
      /\ Cardinality({r \in flow.rows : r.id = ln.id}) = 1
      /\ \A r \in flow.rows :
           r.id = ln.id =>
             /\ r.totalImport =
                  TotalFlow({f \in flow.result_incomplete : f.to_id = ln.id})
             /\ r.totalExport =
                  TotalFlow({f \in flow.result_incomplete : f.from_id = ln.id})

====
